---- MODULE Spec2Model ----
(***************************************************************************)
(* The progress engine of alive-progress-ts (core/progress.ts): one bar's  *)
(* ProgressState, its Timer, the self-rescheduling redraw timer, the       *)
(* console hook context and the terminal writer, with one action per       *)
(* operation of the handle returned by aliveBar().                         *)
(*                                                                         *)
(* Numbers.  Counts are JavaScript numbers and may be fractional (manual   *)
(* mode takes a fraction of the total), so every count held in the state   *)
(* (current, skipped, receipt.count, hook position) is kept in fixed point *)
(* with unit 1/Scale; a total is a whole number of items.  Times are       *)
(* integer milliseconds of Date.now(); elapsed() is kept in milliseconds   *)
(* (the code divides by 1000).  Quotients (percent, rate) are kept as      *)
(* fractions [num, den].                                                   *)
(*                                                                         *)
(* Nullable values (total, pauseStart, refreshInterval, receipt,           *)
(* hookContext) are None == <<>> or Some(x) == <<x>>.                      *)
(*                                                                         *)
(* Several specifications share the variables:                             *)
(*   Spec         one bar and everything its handle, its timer, the        *)
(*                console interceptors and SIGINT can do to it;            *)
(*   SpecThrow    Spec, with redraw ticks whose renderFrame throws;        *)
(*   SpecHooks    hook-manager.ts with its console bindings, driven by up  *)
(*                to two bars and by its exported functions;               *)
(*   SpecIt       a generator of aliveIt / aliveItSync and its consumer;   *)
(*   SpecConfig   configuration.ts: the global bag and resolveConfig;      *)
(*   SpecGlobal   the global configuration as an object that is handed     *)
(*                out, mutated and read by a bar at its creation;          *)
(*   SpecSmoother RateSmoother, alone and inside a bar's ETACalculator;    *)
(*   SpecEnrich   enrichMessage fed by a bar's position;                   *)
(*   SpecFit      fixCells;                                                *)
(*   SpecLine     the truncation at the end of renderFrame;                *)
(*   SpecFrame    the parts renderFrame puts into a frame;                 *)
(*   SpecEta      the ETACalculator of a bar under redraw ticks and reads  *)
(*                of bar.eta, and the interval between ticks;              *)
(*   SpecFps      calculateFps and calculateRefreshInterval.               *)
(* Each leaves the variables of the others as its Init put them.           *)
(***************************************************************************)
EXTENDS Integers, Sequences, FiniteSets, TLC

\* ---------------------------------------------------------------- bounds
Scale == 2
MaxTotal == 1
MaxSteps == 4
MaxHookSteps == 5
MaxItems == 3
MaxMsgLen == 3
MaxPosition == 10
MaxCells == 3
MaxWidth == 5
MaxLineLen == 4
MaxTermWidth == 6
MaxUpdates == 3
MaxRate == 2
MaxExp == 6
MaxEtaSteps == 5
MaxCount == 5
MaxConfSteps == 4

\* ------------------------------------------------------ program constants
ManualBase == 100
SigintExitStatus == 130
MIN_FPS == 2
MAX_FPS == 60

None == <<>>
Some(x) == <<x>>

Totals == {None} \cup {Some(t) : t \in 0..MaxTotal}
Counts == {0 - Scale, 1, Scale}
Strings == {"", "a"}
Messages == {"m"}
Terminals == {"tty", "forced", "nontty", "void"}

VARIABLES
    config,             \* the resolved options of the bar
    total, current, skipped, text, title,
    isRunning, isPaused, lastFrame, receipt,
    refreshInterval,    \* the handle of the timer scheduled last, or None
    startTime, pausedTime, pauseStart,      \* the bar's Timer
    now,                \* Date.now()
    pending,            \* the timers of the event loop that have not fired
    timersCreated,      \* timers are named 1, 2, ... in creation order
    hookContext,        \* hook-manager's module variable
    context,            \* the context object the interceptors closed over
    sigintHandler,      \* whether the SIGINT handler is registered
    exited,             \* process.exit was called
    exitStatus,         \* the status passed to process.exit, or None
    cursor,             \* the cursor of the stream: "shown" or "hidden"
    calls,              \* the calls the last operation made, in order, on
                        \* the writer and on pauseHooks/resumeHooks
    out,                \* what the last operation wrote to the stream
    resumeFns,          \* number of resume closures pause() has returned
    lastOp,             \* history: the operation that ran last
    steps,              \* history: how many steps were taken
    fedAll,             \* history: sum of the n passed to bar() while running
    fedSkipped,         \* history: the part of fedAll passed as skipped
    console,            \* the functions bound to console.log/error/warn
    bars,               \* two bar slots sharing the process (hook manager)
    lastCall,           \* history: what the last console call invoked
    gen,                \* a generator made by aliveIt / aliveItSync
    conf,               \* configuration.ts: globalConfig and the last resolve
    enrich,             \* hook-manager's enrichMessage: input and result
    fit,                \* cells: fixCells input and result
    line,               \* renderFrame: input and result
    smoother,           \* a RateSmoother and how it was made
    fps                 \* calibration: calculateFps input and result

vars == << config, total, current, skipped, text, title,
           isRunning, isPaused, lastFrame, receipt, refreshInterval,
           startTime, pausedTime, pauseStart, now, pending, timersCreated,
           hookContext, context, sigintHandler, exited, exitStatus,
           cursor, calls, out, resumeFns, lastOp, steps, fedAll, fedSkipped,
           console, bars, lastCall, gen, conf, enrich, fit, line, smoother,
           fps >>

\* The variables of the hook-manager specification (SpecHooks) that the
\* single-bar engine specification (Spec) leaves alone, and the converse.
hookOwn == << console, bars, lastCall >>

\* The variable of the iterator-wrapper specification (SpecIt).
itOwn == << gen >>

\* The variables of the specifications of library functions (SpecConfig,
\* SpecEnrich, SpecFit, SpecLine, SpecSmoother, SpecFps), one each.
libOwn == << conf, enrich, fit, line, smoother, fps >>

\* Every library variable but the one named stays at None.
LibIdle(me) ==
    /\ IF me = "conf" THEN TRUE ELSE conf = <<>>
    /\ IF me = "enrich" THEN TRUE ELSE enrich = <<>>
    /\ IF me = "fit" THEN TRUE ELSE fit = <<>>
    /\ IF me = "line" THEN TRUE ELSE line = <<>>
    /\ IF me = "smoother" THEN TRUE ELSE smoother = <<>>
    /\ IF me = "fps" THEN TRUE ELSE fps = <<>>

engineOwn == << config, total, current, skipped, text, title, isRunning,
               isPaused, lastFrame, receipt, refreshInterval, startTime,
               pausedTime, pauseStart, now, pending, timersCreated, context,
               sigintHandler, cursor, calls, out, resumeFns, fedAll,
               fedSkipped >>

\* ------------------------------------------------------------ JS helpers
Truthy(t) == t # None /\ t[1] # 0

\* A fraction num/den; the code's plain number n is Frac(n, 1).
Frac(n, d) == [num |-> n, den |-> d]

\* ------------------------------------------------------- terminal writer
NoFrame == [title |-> "", count |-> 0, text |-> "", empty |-> TRUE]
Tok(k, f, s, n) == [k |-> k, f |-> f, s |-> s, n |-> n]
ClearTok == Tok("clear", NoFrame, "", None)
HideTok == Tok("hide", NoFrame, "", None)
ShowTok == Tok("show", NoFrame, "", None)
FrameTok(f) == Tok("frame", f, "", None)
LineTok(s, n) == Tok("line", NoFrame, s, n)
ReceiptTok(f) == Tok("receipt", f, "", None)
OrigTok(s) == Tok("original", NoFrame, s, None)
\* pauseHooks() and resumeHooks(), recorded among the calls of a handler.
PauseHooksTok == Tok("pauseHooks", NoFrame, "", None)
ResumeHooksTok == Tok("resumeHooks", NoFrame, "", None)

\* Mutant: a NonTTYWriter whose write() reaches the stream.
WriterEmitNonTTYWrites(term, tok) ==
    IF tok.k \in {"pauseHooks", "resumeHooks"} THEN <<>>
    ELSE IF term \in {"tty", "forced"} THEN <<tok>>
    ELSE IF term = "nontty" /\ tok.k \in {"frame", "line", "receipt"} THEN <<tok>>
    ELSE <<>>

\* What a writer of the given kind puts on the stream for one call.
WriterEmit(term, tok) ==
    IF tok.k \in {"pauseHooks", "resumeHooks"} THEN <<>>
    ELSE IF term \in {"tty", "forced"} THEN <<tok>>
    ELSE IF term = "nontty" /\ tok.k \in {"line", "receipt"} THEN <<tok>>
    ELSE <<>>

RECURSIVE WriterEmitAll(_, _)
WriterEmitAll(term, toks) ==
    IF toks = <<>> THEN <<>>
    ELSE WriterEmit(term, Head(toks)) \o WriterEmitAll(term, Tail(toks))

IsInteractive(term) == term = "tty"

\* The cursor state of the stream after the writes ws.
RECURSIVE CursorAfter(_, _)
CursorAfter(c, ws) ==
    IF ws = <<>> THEN c
    ELSE CursorAfter(IF Head(ws).k = "hide" THEN "hidden"
                     ELSE IF Head(ws).k = "show" THEN "shown"
                     ELSE c, Tail(ws))

\* ------------------------------------------------------------------ Timer
TimerElapsed(st, pt, ps, t) ==
    t - st - pt - (IF Truthy(ps) THEN t - ps[1] ELSE 0)

\* Mutant: pause() that restarts the pause span on every call.
TimerPauseRestarts(ps, t) == Some(t)

\* Timer.pause(): the start of the pause span after the call.
TimerPauseStart(ps, t) == IF ps = None THEN Some(t) ELSE ps

\* Mutant: resume() that forgets to accumulate the paused span.
TimerResumeForgets(pt, ps, t) == pt

TimerResumePaused(pt, ps, t) == IF ps # None THEN pt + (t - ps[1]) ELSE pt

Elapsed == TimerElapsed(startTime, pausedTime, pauseStart, now)

\* ---------------------------------------------------------- hook manager
\* A function that can be bound to console[name]: the runtime's, one the
\* application put there, or an interceptor made by createInterceptor.
Names == {"log", "error", "warn"}
Fn(kind, name) == [kind |-> kind, name |-> name]
NativeConsole == [name \in Names |-> Fn("native", name)]
AppConsole == [name \in Names |-> Fn(IF name = "log" THEN "app" ELSE "native", name)]

Slots == {1, 2}
NoBar == [state |-> "none", current |-> 0, installed |-> FALSE, wants |-> FALSE,
          before |-> NativeConsole]
NoCall == [name |-> "", original |-> <<>>, onPrint |-> <<>>, bar |-> 0]

\* The original function an interceptor bound to console[name] closed over.
OriginalOf(ctx, name) ==
    IF name = "log" THEN ctx.originalLog
    ELSE IF name = "error" THEN ctx.originalError
    ELSE ctx.originalWarn

\* Mutant: an interceptor that never looks at isActive.
InterceptorCallAlwaysActive(ctx, original, msg) ==
    [original |-> <<>>,
     onPrint |-> <<LineTok(msg, IF ctx.enrichPrint
                                THEN Some(ctx.position + ctx.enrichOffset)
                                ELSE None)>>]

\* The function returned by createInterceptor(ctx, original), called with
\* msg: the functions it calls and the texts it hands to printFn.
InterceptorCall(ctx, original, msg) ==
    IF ~ctx.isActive THEN [original |-> <<original>>, onPrint |-> <<>>]
    ELSE [original |-> <<>>,
          onPrint |-> <<LineTok(msg, IF ctx.enrichPrint
                                     THEN Some(ctx.position + ctx.enrichOffset)
                                     ELSE None)>>]

\* Mutant: installHooks without the test for an installed context.
InstallHooksContextOverwrites(hc, cons, offset, owner) ==
    Some([originalLog |-> cons["log"], originalError |-> cons["error"],
          originalWarn |-> cons["warn"], isActive |-> TRUE,
          position |-> 0, enrichPrint |-> TRUE, enrichOffset |-> offset,
          printFn |-> owner])

\* installHooks: ignored while a context is installed.
InstallHooksContext(hc, cons, offset, owner) ==
    IF hc # None THEN hc
    ELSE Some([originalLog |-> cons["log"], originalError |-> cons["error"],
               originalWarn |-> cons["warn"], isActive |-> TRUE,
               position |-> 0, enrichPrint |-> TRUE, enrichOffset |-> offset,
               printFn |-> owner])

InstallHooksConsole(hc, cons) ==
    IF hc # None THEN cons
    ELSE [name \in Names |-> Fn("interceptor", name)]

\* Mutant: uninstallHooks that restores console.log only.
UninstallHooksLogOnly(hc, cons) ==
    IF hc = None THEN cons
    ELSE [name \in Names |->
            IF name = "log" THEN hc[1].originalLog ELSE cons[name]]

\* uninstallHooks: the console bindings after it (the context becomes null).
UninstallHooksConsole(hc, cons) ==
    IF hc = None THEN cons
    ELSE [name \in Names |-> OriginalOf(hc[1], name)]

\* ----------------------------------------------------- aliveIt, aliveItSync
Items == {"x", "y"}

RECURSIVE SeqsUpTo(_)
SeqsUpTo(n) ==
    IF n = 0 THEN {<<>>}
    ELSE LET shorter == SeqsUpTo(n - 1)
         IN shorter \cup {Append(s, e) : s \in {t \in shorter : Len(t) = n - 1},
                                         e \in Items}

\* What the wrappers iterate over: an array (its length is the total) or an
\* iterator without length, which after its elements either ends or throws.
Sources ==
    { [kind |-> "array", items |-> s, throws |-> FALSE] : s \in SeqsUpTo(MaxItems) }
    \cup { [kind |-> "iterator", items |-> s, throws |-> t] :
             s \in SeqsUpTo(MaxItems), t \in BOOLEAN }

\* The total the wrapper passes to aliveBar.
DetectTotal(src) == IF src.kind = "array" THEN Some(Len(src.items)) ELSE None

NoGen == [fn |-> "", source |-> [kind |-> "array", items |-> <<>>, throws |-> FALSE],
          pc |-> "none", total |-> None, count |-> 0, yielded |-> <<>>,
          finalized |-> 0, receipt |-> None, exit |-> ""]

\* ------------------------------------------------------------ renderFrame
RenderFrame(ttl, cur, skp, txt) ==
    [title |-> ttl, count |-> cur - skp, text |-> txt, empty |-> FALSE]

\* Mutant: updateDisplay without the isRunning test.
UpdateDisplayCallsNoRunningTest(running, paused, frame) ==
    IF paused THEN <<>>
    ELSE <<PauseHooksTok, ClearTok, FrameTok(frame), ResumeHooksTok>>

\* updateDisplay: the calls it makes (none when it returns early).
UpdateDisplayCalls(running, paused, frame) ==
    IF ~running \/ paused THEN <<>>
    ELSE <<PauseHooksTok, ClearTok, FrameTok(frame), ResumeHooksTok>>

UpdateDisplayFrame(running, paused, old, frame) ==
    IF ~running \/ paused THEN old ELSE frame

\* Mutant: printLine that redraws the frame before it writes the message.
PrintLineCallsFrameFirst(running, frame, msg, pos) ==
    IF ~running THEN <<>>
    ELSE <<PauseHooksTok, ClearTok>>
         \o (IF frame.empty THEN <<>> ELSE <<FrameTok(frame)>>)
         \o <<LineTok(msg, pos), ResumeHooksTok>>

\* printLine: the calls it makes.
PrintLineCalls(running, frame, msg, pos) ==
    IF ~running THEN <<>>
    ELSE <<PauseHooksTok, ClearTok, LineTok(msg, pos)>>
         \o (IF frame.empty THEN <<>> ELSE <<FrameTok(frame)>>)
         \o <<ResumeHooksTok>>

\* stopRefreshLoop: the pending timers after clearTimeout(refreshInterval).
StopRefreshLoop(pend, handle) ==
    IF handle # None THEN pend \ {handle[1]} ELSE pend

\* ---------------------------------------------------------------- receipt
\* Mutant: overflow/underflow compared without the `total !== null` test
\* (JavaScript compares null as 0).
MakeReceiptNoNullTest(tot, cur, skp, elapsed) ==
    LET actualCurrent == cur - skp
        t == IF tot = None THEN 0 ELSE tot[1] * Scale
        overflow == actualCurrent > t
        underflow == actualCurrent < t
    IN [ total |-> tot,
         count |-> actualCurrent,
         percent |-> IF Truthy(tot) THEN Frac(actualCurrent * 100, tot[1] * Scale)
                     ELSE Frac(100, 1),
         elapsed |-> elapsed,
         rate |-> IF elapsed > 0 THEN Frac(actualCurrent, elapsed) ELSE Frac(0, 1),
         success |-> ~(overflow \/ underflow),
         overflow |-> overflow,
         underflow |-> underflow ]

\* Mutant: the receipt reports the raw count, skipped items included.
MakeReceiptRawCount(tot, cur, skp, elapsed) ==
    LET actualCurrent == cur
        overflow == tot # None /\ actualCurrent > tot[1] * Scale
        underflow == tot # None /\ actualCurrent < tot[1] * Scale
    IN [ total |-> tot,
         count |-> actualCurrent,
         percent |-> IF Truthy(tot) THEN Frac(actualCurrent * 100, tot[1] * Scale)
                     ELSE Frac(100, 1),
         elapsed |-> elapsed,
         rate |-> IF elapsed > 0 THEN Frac(actualCurrent, elapsed) ELSE Frac(0, 1),
         success |-> ~(overflow \/ underflow),
         overflow |-> overflow,
         underflow |-> underflow ]

MakeReceipt(tot, cur, skp, elapsed) ==
    LET actualCurrent == cur - skp
        overflow == tot # None /\ actualCurrent > tot[1] * Scale
        underflow == tot # None /\ actualCurrent < tot[1] * Scale
    IN [ total |-> tot,
         count |-> actualCurrent,
         percent |-> IF Truthy(tot) THEN Frac(actualCurrent * 100, tot[1] * Scale)
                     ELSE Frac(100, 1),
         elapsed |-> elapsed,
         rate |-> IF elapsed > 0 THEN Frac(actualCurrent, elapsed) ELSE Frac(0, 1),
         success |-> ~(overflow \/ underflow),
         overflow |-> overflow,
         underflow |-> underflow ]

\* finalize: the calls it makes after uninstallHooks().
\* Mutant: the summary line is written whatever config.receipt says.
FinalizeCallsAlwaysReceipt(cfg, ttl, cur, skp) ==
    <<PauseHooksTok, ClearTok,
      ReceiptTok([title |-> ttl, count |-> cur - skp, text |-> "", empty |-> FALSE]),
      ShowTok, ResumeHooksTok>>

FinalizeCalls(cfg, ttl, cur, skp) ==
    IF cfg.receipt
    THEN <<PauseHooksTok, ClearTok,
           ReceiptTok([title |-> ttl, count |-> cur - skp, text |-> "", empty |-> FALSE]),
           ShowTok, ResumeHooksTok>>
    ELSE <<ClearTok, ShowTok>>

\* ------------------------------------------------------------------- Init
\* The configurations explored: every total and mode on an interactive
\* terminal, and every writer with and without receipt and console hooks.
CountConfigs ==
    [ total : Totals, manual : BOOLEAN, receipt : {TRUE},
      enrichPrint : {TRUE}, term : {"tty"}, ctrlC : {FALSE} ]

OutputConfigs ==
    { [ total |-> Some(MaxTotal), manual |-> FALSE, receipt |-> b,
        enrichPrint |-> b, term |-> t, ctrlC |-> TRUE ] :
      b \in BOOLEAN, t \in Terminals }

Configs == CountConfigs \cup OutputConfigs

Init ==
    /\ config \in Configs
    /\ total = config.total
    /\ current = 0
    /\ skipped = 0
    /\ text = ""
    /\ title = ""
    /\ isRunning = TRUE
    /\ isPaused = FALSE
    /\ lastFrame = RenderFrame("", 0, 0, "")
    /\ receipt = None
    /\ refreshInterval = Some(1)
    /\ startTime = 1
    /\ pausedTime = 0
    /\ pauseStart = None
    /\ now = 1
    /\ pending = {1}
    /\ timersCreated = 1
    /\ hookContext = IF config.enrichPrint /\ IsInteractive(config.term)
                     THEN Some([isActive |-> TRUE, position |-> 0]) ELSE None
    /\ context = hookContext
    /\ sigintHandler = config.ctrlC
    /\ exited = FALSE
    /\ exitStatus = None
    /\ calls = <<HideTok>> \o UpdateDisplayCalls(TRUE, FALSE, RenderFrame("", 0, 0, ""))
    /\ out = WriterEmitAll(config.term, calls)
    /\ cursor = CursorAfter("shown", out)
    /\ resumeFns = 0
    /\ lastOp = "aliveBar"
    /\ steps = 0
    /\ fedAll = 0
    /\ fedSkipped = 0
    /\ console = NativeConsole
    /\ bars = [b \in Slots |-> NoBar]
    /\ lastCall = NoCall
    /\ gen = NoGen
    /\ LibIdle("")

\* ----------------------------------------------------- pieces of handlers
\* Mutant: barFn without the isRunning test.
BarFnCurrentNoRunningTest(running, manual, tot, cur, n) ==
    IF manual THEN n * (IF Truthy(tot) THEN tot[1] ELSE ManualBase)
    ELSE cur + n

\* barFn: the raw count after bar(n, opts).
BarFnCurrent(running, manual, tot, cur, n) ==
    IF ~running THEN cur
    ELSE IF manual THEN n * (IF Truthy(tot) THEN tot[1] ELSE ManualBase)
    ELSE cur + n

\* barFn: the skipped count after bar(n, {skipped: flag}).
BarFnSkipped(running, skp, flag, n) ==
    IF ~running THEN skp
    ELSE IF flag THEN skp + n
    ELSE skp

\* Mutant: the getter returns the raw count.
BarCurrentRaw == current

\* The `current` getter of the handle.
BarCurrent == current - skipped

\* Mutant: the getter builds the receipt from the live state on every read.
BarReceiptLive ==
    IF isRunning THEN None
    ELSE Some(MakeReceipt(total, current, skipped, Elapsed))

\* The `receipt` getter of the handle.
BarReceipt == receipt

\* updatePosition / pauseHooks / resumeHooks act on the installed context only.
UpdatePosition(hc, p) ==
    IF hc # None THEN Some([hc[1] EXCEPT !.position = p]) ELSE hc

PauseHooks(hc) ==
    IF hc # None THEN Some([hc[1] EXCEPT !.isActive = FALSE]) ELSE hc

ResumeHooks(hc) ==
    IF hc # None THEN Some([hc[1] EXCEPT !.isActive = TRUE]) ELSE hc

\* The module variable hookContext after the calls cs of a handler.
RECURSIVE HooksAfter(_, _)
HooksAfter(hc, cs) ==
    IF cs = <<>> THEN hc
    ELSE HooksAfter(IF Head(cs).k = "pauseHooks" THEN PauseHooks(hc)
                    ELSE IF Head(cs).k = "resumeHooks" THEN ResumeHooks(hc)
                    ELSE hc, Tail(cs))

\* The context object the interceptors closed over: the installed one, or
\* the one kept from before uninstallHooks().
ContextAfter(hc, ctx) == IF hc # None THEN hc ELSE ctx

\* Mutant: a resume closure that leaves the cursor as pause() put it.
ResumeCallsNoHide(running, frame) ==
    UpdateDisplayCalls(running, FALSE, frame)

\* The resume closure: the writer calls it makes.
ResumeCalls(running, frame) ==
    <<HideTok>> \o UpdateDisplayCalls(running, FALSE, frame)

\* Mutant: the resume closure starts the refresh loop again.
ResumeTimersRestart(pend, created) == pend \cup {created + 1}

\* The resume closure: the timers pending after it.
ResumeTimers(pend, created) == pend

\* refresh(): whether the tick renders and reschedules.
RefreshRuns(running, paused) == ~(~running \/ paused)

\* ---------------------------------------------------------------- actions
\* Runs are explored up to MaxSteps steps.
Budget ==
    /\ steps < MaxSteps
    /\ steps' = steps + 1
    /\ UNCHANGED << hookOwn, itOwn, libOwn >>

BarCall(n, flag) ==
    /\ Budget
    /\ ~exited
    /\ current' = BarFnCurrent(isRunning, config.manual, total, current, n)
    /\ skipped' = BarFnSkipped(isRunning, skipped, flag, n)
    /\ hookContext' = IF isRunning THEN UpdatePosition(hookContext, current')
                      ELSE hookContext
    /\ context' = ContextAfter(hookContext', context)
    /\ fedAll' = IF isRunning THEN fedAll + n ELSE fedAll
    /\ fedSkipped' = IF isRunning /\ flag THEN fedSkipped + n ELSE fedSkipped
    /\ lastOp' = "bar"
    /\ calls' = <<>>
    /\ out' = <<>>
    /\ UNCHANGED << config, total, text, title, isRunning, isPaused, lastFrame,
                    receipt, refreshInterval, startTime, pausedTime, pauseStart,
                    now, pending, timersCreated, sigintHandler, exited, exitStatus, cursor,
                    resumeFns >>

\* The `text` setter and setText(v).
SetText(v) ==
    /\ Budget
    /\ ~exited
    /\ text' = v
    /\ lastOp' = "setText"
    /\ calls' = <<>>
    /\ out' = <<>>
    /\ UNCHANGED << config, total, current, skipped, title, isRunning, isPaused,
                    lastFrame, receipt, refreshInterval, startTime, pausedTime,
                    pauseStart, now, pending, timersCreated, hookContext, context,
                    sigintHandler, exited, exitStatus, cursor, resumeFns, fedAll, fedSkipped >>

\* The `title` setter and setTitle(v).
SetTitle(v) ==
    /\ Budget
    /\ ~exited
    /\ title' = v
    /\ lastOp' = "setTitle"
    /\ calls' = <<>>
    /\ out' = <<>>
    /\ UNCHANGED << config, total, current, skipped, text, isRunning, isPaused,
                    lastFrame, receipt, refreshInterval, startTime, pausedTime,
                    pauseStart, now, pending, timersCreated, hookContext, context,
                    sigintHandler, exited, exitStatus, cursor, resumeFns, fedAll, fedSkipped >>

\* pause(): returns a resume closure.
Pause ==
    /\ Budget
    /\ ~exited
    /\ isPaused' = TRUE
    /\ pauseStart' = TimerPauseStart(pauseStart, now)
    /\ calls' = <<ClearTok, ShowTok>>
    /\ out' = WriterEmitAll(config.term, calls')
    /\ cursor' = CursorAfter(cursor, out')
    /\ resumeFns' = resumeFns + 1
    /\ lastOp' = "pause"
    /\ UNCHANGED << config, total, current, skipped, text, title, isRunning,
                    lastFrame, receipt, refreshInterval, startTime, pausedTime,
                    now, pending, timersCreated, hookContext, context,
                    sigintHandler, exited, exitStatus, fedAll, fedSkipped >>

\* A resume closure returned by an earlier pause() is invoked.
Resume ==
    /\ Budget
    /\ ~exited
    /\ resumeFns > 0
    /\ isPaused' = FALSE
    /\ pausedTime' = TimerResumePaused(pausedTime, pauseStart, now)
    /\ pauseStart' = None
    /\ LET frame == RenderFrame(title, current, skipped, text)
       IN /\ lastFrame' = UpdateDisplayFrame(isRunning, FALSE, lastFrame, frame)
          /\ calls' = ResumeCalls(isRunning, frame)
    /\ out' = WriterEmitAll(config.term, calls')
    /\ hookContext' = HooksAfter(hookContext, calls')
    /\ context' = ContextAfter(hookContext', context)
    /\ cursor' = CursorAfter(cursor, out')
    /\ pending' = ResumeTimers(pending, timersCreated)
    /\ lastOp' = "resume"
    /\ UNCHANGED << config, total, current, skipped, text, title, isRunning,
                    receipt, refreshInterval, startTime, now, timersCreated,
                    sigintHandler, exited, exitStatus, resumeFns, fedAll, fedSkipped >>

\* A pending redraw timer fires and runs refresh().
Tick(id) ==
    /\ Budget
    /\ ~exited
    /\ id \in pending
    /\ IF RefreshRuns(isRunning, isPaused)
       THEN LET frame == RenderFrame(title, current, skipped, text)
            IN /\ lastFrame' = UpdateDisplayFrame(isRunning, isPaused, lastFrame, frame)
               /\ calls' = UpdateDisplayCalls(isRunning, isPaused, frame)
               /\ timersCreated' = timersCreated + 1
               /\ refreshInterval' = Some(timersCreated')
               /\ pending' = (pending \ {id}) \cup {timersCreated'}
       ELSE /\ pending' = pending \ {id}
            /\ calls' = <<>>
            /\ UNCHANGED << lastFrame, timersCreated, refreshInterval >>
    /\ out' = WriterEmitAll(config.term, calls')
    /\ hookContext' = HooksAfter(hookContext, calls')
    /\ context' = ContextAfter(hookContext', context)
    /\ lastOp' = "tick"
    /\ UNCHANGED << config, total, current, skipped, text, title, isRunning,
                    isPaused, receipt, startTime, pausedTime, pauseStart, now,
                    sigintHandler, exited, exitStatus, cursor, resumeFns, fedAll,
                    fedSkipped >>

\* finalize(state), shared by done() and the SIGINT handler.
Finalize ==
    /\ isRunning' = FALSE
    /\ pending' = StopRefreshLoop(pending, refreshInterval)
    /\ refreshInterval' = None
    /\ calls' = FinalizeCalls(config, title, current, skipped)
    /\ hookContext' = HooksAfter(None, calls')
    /\ receipt' = Some(MakeReceipt(total, current, skipped, Elapsed))
    /\ out' = WriterEmitAll(config.term, calls')
    /\ cursor' = CursorAfter(cursor, out')
    /\ UNCHANGED << config, total, current, skipped, text, title, isPaused,
                    lastFrame, startTime, pausedTime, pauseStart, now,
                    timersCreated, context, resumeFns, fedAll, fedSkipped >>

\* Mutant: done() that leaves the SIGINT handler registered.
ProcessOffForgotten(registered) == registered

\* process.off("SIGINT", sigintHandler): whether a handler stays registered.
ProcessOff(registered) == FALSE

\* done(): deregisters the SIGINT handler, then finalizes.
Done ==
    /\ Budget
    /\ ~exited
    /\ sigintHandler' = ProcessOff(sigintHandler)
    /\ Finalize
    /\ lastOp' = "done"
    /\ UNCHANGED << exited, exitStatus >>

\* SIGINT with the Ctrl+C handler registered: finalize, then process.exit(130).
Interrupt ==
    /\ Budget
    /\ ~exited
    /\ sigintHandler
    /\ Finalize
    /\ exited' = TRUE
    /\ exitStatus' = Some(SigintExitStatus)
    /\ lastOp' = "sigint"
    /\ UNCHANGED sigintHandler

\* A call of an interceptor created by installHooks (console.log/error/warn
\* while installed, or a reference to it kept by the application).
InterceptedLog(msg) ==
    /\ Budget
    /\ ~exited
    /\ context # None
    /\ calls' = IF ~context[1].isActive THEN <<OrigTok(msg)>>
                ELSE PrintLineCalls(isRunning, lastFrame, msg,
                                    Some(context[1].position))
    /\ out' = WriterEmitAll(config.term, calls')
    /\ hookContext' = HooksAfter(hookContext, calls')
    /\ context' = ContextAfter(hookContext', context)
    /\ lastOp' = "print"
    /\ UNCHANGED << config, total, current, skipped, text, title, isRunning,
                    isPaused, lastFrame, receipt, refreshInterval, startTime,
                    pausedTime, pauseStart, now, pending, timersCreated,
                    sigintHandler, exited, exitStatus, cursor, resumeFns, fedAll,
                    fedSkipped >>

\* console.log while no hook is installed: the original function writes.
OriginalLog(msg) ==
    /\ Budget
    /\ ~exited
    /\ hookContext = None
    /\ calls' = <<OrigTok(msg)>>
    /\ out' = <<OrigTok(msg)>>
    /\ lastOp' = "log"
    /\ UNCHANGED << config, total, current, skipped, text, title, isRunning,
                    isPaused, lastFrame, receipt, refreshInterval, startTime,
                    pausedTime, pauseStart, now, pending, timersCreated,
                    hookContext, context, sigintHandler, exited, exitStatus, cursor,
                    resumeFns, fedAll, fedSkipped >>

\* Date.now() advances.
Advance ==
    /\ Budget
    /\ ~exited
    /\ now' = now + 1
    /\ UNCHANGED << config, total, current, skipped, text, title, isRunning,
                    isPaused, lastFrame, receipt, refreshInterval, startTime,
                    pausedTime, pauseStart, pending, timersCreated, hookContext,
                    context, sigintHandler, exited, exitStatus, cursor, calls, out,
                    resumeFns, lastOp, fedAll, fedSkipped >>

Next ==
    \/ \E n \in Counts, flag \in BOOLEAN : BarCall(n, flag)
    \/ \E v \in Strings : SetText(v)
    \/ \E v \in Strings : SetTitle(v)
    \/ Pause
    \/ Resume
    \/ \E id \in pending : Tick(id)
    \/ Done
    \/ Interrupt
    \/ \E msg \in Messages : InterceptedLog(msg)
    \/ \E msg \in Messages : OriginalLog(msg)
    \/ Advance

Spec == Init /\ [][Next]_vars

\* hooksInstalled()
HooksInstalled == hookContext # None

\* ============================================== hook manager with two bars
\* hook-manager.ts keeps one module-level hookContext for the process.  This
\* specification runs up to two bars side by side over it, each reduced to
\* what the hook manager sees of a bar: whether it runs, its count, and the
\* installHooks / updatePosition / pauseHooks / resumeHooks / uninstallHooks
\* calls its operations make.  Bars are created on an interactive terminal.
EngineIdle ==
    /\ config = [ total |-> None, manual |-> FALSE, receipt |-> FALSE,
                  enrichPrint |-> TRUE, term |-> "tty", ctrlC |-> TRUE ]
    /\ total = None /\ current = 0 /\ skipped = 0 /\ text = "" /\ title = ""
    /\ isRunning = FALSE /\ isPaused = FALSE /\ lastFrame = NoFrame
    /\ receipt = None /\ refreshInterval = None
    /\ startTime = 1 /\ pausedTime = 0 /\ pauseStart = None /\ now = 1
    /\ pending = {} /\ timersCreated = 0 /\ context = None
    /\ sigintHandler = FALSE /\ cursor = "shown" /\ calls = <<>> /\ out = <<>>
    /\ resumeFns = 0 /\ fedAll = 0 /\ fedSkipped = 0

InitHooks ==
    /\ EngineIdle
    /\ console \in {NativeConsole, AppConsole}
    /\ hookContext = None
    /\ bars = [b \in Slots |-> NoBar]
    /\ lastCall = NoCall
    /\ gen = NoGen
    /\ LibIdle("")
    /\ exited = FALSE
    /\ exitStatus = None
    /\ lastOp = "start"
    /\ steps = 0

\* Runs are explored up to MaxHookSteps steps.
HookBudget ==
    /\ steps < MaxHookSteps
    /\ steps' = steps + 1
    /\ UNCHANGED << engineOwn, itOwn, libOwn >>

Actor(b) == [NoCall EXCEPT !.bar = b]

\* aliveBar() in slot b; wants = config.enrichPrint && isInteractive().
NewBar(b, wants, offset) ==
    /\ HookBudget
    /\ ~exited
    /\ bars[b].state # "running"
    /\ LET hc == IF wants
                 THEN InstallHooksContext(hookContext, console, offset, b)
                 ELSE hookContext
       IN hookContext' = HooksAfter(hc,
              UpdateDisplayCalls(TRUE, FALSE, RenderFrame("", 0, 0, "")))
    /\ console' = IF wants THEN InstallHooksConsole(hookContext, console)
                  ELSE console
    /\ bars' = [bars EXCEPT ![b] =
                   [state |-> "running", current |-> 0,
                    installed |-> wants /\ hookContext = None,
                    wants |-> wants,
                    before |-> console]]
    /\ lastCall' = Actor(b)
    /\ lastOp' = "aliveBar"
    /\ UNCHANGED << exited, exitStatus >>

\* bar() on the handle of slot b.
BarInc(b) ==
    /\ HookBudget
    /\ ~exited
    /\ bars[b].state # "none"
    /\ LET running == bars[b].state = "running"
           cur == BarFnCurrent(running, FALSE, None, bars[b].current, Scale)
       IN /\ bars' = [bars EXCEPT ![b].current = cur]
          /\ hookContext' = IF running THEN UpdatePosition(hookContext, cur)
                            ELSE hookContext
    /\ lastCall' = Actor(b)
    /\ lastOp' = "bar"
    /\ UNCHANGED << console, exited, exitStatus >>

\* A redraw tick of the running bar in slot b.
BarRedraw(b) ==
    /\ HookBudget
    /\ ~exited
    /\ bars[b].state = "running"
    /\ hookContext' = HooksAfter(hookContext,
           UpdateDisplayCalls(TRUE, FALSE,
                              RenderFrame("", bars[b].current, 0, "")))
    /\ lastCall' = Actor(b)
    /\ lastOp' = "tick"
    /\ UNCHANGED << console, bars, exited, exitStatus >>

\* finalize(state) of the bar in slot b.
BarFinalize(b) ==
    /\ bars' = [bars EXCEPT ![b].state = "done"]
    /\ console' = UninstallHooksConsole(hookContext, console)
    /\ hookContext' = HooksAfter(None, FinalizeCalls(config, "", bars[b].current, 0))
    /\ lastCall' = Actor(b)

\* done() on the handle of slot b.
BarDone(b) ==
    /\ HookBudget
    /\ ~exited
    /\ bars[b].state # "none"
    /\ BarFinalize(b)
    /\ lastOp' = "done"
    /\ UNCHANGED << exited, exitStatus >>

\* SIGINT reaches the handler of the running bar in slot b.
BarInterrupt(b) ==
    /\ HookBudget
    /\ ~exited
    /\ bars[b].state = "running"
    /\ BarFinalize(b)
    /\ exited' = TRUE
    /\ exitStatus' = Some(SigintExitStatus)
    /\ lastOp' = "sigint"

\* The application calls console[name](msg).
ConsoleCall(name, msg) ==
    /\ HookBudget
    /\ ~exited
    /\ LET f == console[name]
           r == IF f.kind = "interceptor"
                THEN InterceptorCall(hookContext[1],
                                     OriginalOf(hookContext[1], name), msg)
                ELSE [original |-> <<f>>, onPrint |-> <<>>]
           owner == IF r.onPrint # <<>> THEN hookContext[1].printFn ELSE 0
       IN /\ lastCall' = [name |-> name, original |-> r.original,
                          onPrint |-> r.onPrint, bar |-> owner]
          /\ hookContext' =
                IF owner # 0
                THEN HooksAfter(hookContext,
                         PrintLineCalls(bars[owner].state = "running",
                                        NoFrame, msg, None))
                ELSE hookContext
    /\ lastOp' = "console"
    /\ UNCHANGED << console, bars, exited, exitStatus >>

\* The exported pauseHooks() and resumeHooks(), called on their own.
PauseHooksOp ==
    /\ HookBudget
    /\ ~exited
    /\ hookContext' = PauseHooks(hookContext)
    /\ lastCall' = NoCall
    /\ lastOp' = "pauseHooks"
    /\ UNCHANGED << console, bars, exited, exitStatus >>

ResumeHooksOp ==
    /\ HookBudget
    /\ ~exited
    /\ hookContext' = ResumeHooks(hookContext)
    /\ lastCall' = NoCall
    /\ lastOp' = "resumeHooks"
    /\ UNCHANGED << console, bars, exited, exitStatus >>

NextHooks ==
    \/ \E b \in Slots, wants \in BOOLEAN, offset \in {0, 1} : NewBar(b, wants, offset)
    \/ \E b \in Slots : BarInc(b)
    \/ \E b \in Slots : BarRedraw(b)
    \/ \E b \in Slots : BarDone(b)
    \/ \E b \in Slots : BarInterrupt(b)
    \/ \E name \in Names, msg \in Messages : ConsoleCall(name, msg)
    \/ PauseHooksOp
    \/ ResumeHooksOp

SpecHooks == InitHooks /\ [][NextHooks]_vars

\* ================================================== aliveIt / aliveItSync
\* A generator returned by aliveIt or aliveItSync and driven by a for-await /
\* for-of loop of the consumer.  pc is "created" before the first next(),
\* "suspended" at `yield item`, "closed" once the generator has returned or
\* thrown.  The bar is reduced to its count, its receipt and the number of
\* finalize() runs.
InitIt ==
    /\ EngineIdle
    /\ console = NativeConsole
    /\ hookContext = None
    /\ bars = [b \in Slots |-> NoBar]
    /\ lastCall = NoCall
    /\ exited = FALSE
    /\ exitStatus = None
    /\ lastOp = "start"
    /\ steps = 0
    /\ LibIdle("")
    /\ \E fn \in {"aliveIt", "aliveItSync"}, src \in Sources :
           gen = [NoGen EXCEPT !.fn = fn, !.source = src, !.pc = "created"]

ItFrame ==
    UNCHANGED << engineOwn, hookOwn, libOwn, hookContext, exited, exitStatus, lastOp,
                steps >>

\* Mutant: done() placed after the loop instead of in a finally block.
GenCloseNoFinally(g, how) ==
    IF how = "exhausted"
    THEN [g EXCEPT !.pc = "closed", !.exit = how,
                   !.finalized = g.finalized + 1,
                   !.receipt = Some(MakeReceipt(g.total, g.count, 0, 0))]
    ELSE [g EXCEPT !.pc = "closed", !.exit = how]

\* The generator leaves the try block: the finally block calls done().
GenClose(g, how) ==
    [g EXCEPT !.pc = "closed", !.exit = how,
              !.finalized = g.finalized + 1,
              !.receipt = Some(MakeReceipt(g.total, g.count, 0, 0))]

\* The generator runs from where it stands to its next yield or to its end:
\* on the first next() it creates the bar, on a later one it first calls
\* bar() for the element yielded before.
GenResume(g) ==
    LET started == IF g.pc = "created"
                   THEN [g EXCEPT !.total = DetectTotal(g.source)]
                   ELSE [g EXCEPT !.count =
                            BarFnCurrent(TRUE, FALSE, g.total, g.count, Scale)]
        n == Len(started.yielded)
    IN IF n < Len(started.source.items)
       THEN [started EXCEPT !.pc = "suspended",
                            !.yielded = Append(started.yielded,
                                               started.source.items[n + 1])]
       ELSE IF started.source.throws THEN GenClose(started, "sourceError")
       ELSE GenClose(started, "exhausted")

\* The consumer's loop asks for the next element.
ItNext ==
    /\ gen.pc \in {"created", "suspended"}
    /\ gen' = GenResume(gen)
    /\ ItFrame

\* The consumer's loop body breaks or returns: the loop calls return().
ItBreak ==
    /\ gen.pc = "suspended"
    /\ gen' = GenClose(gen, "break")
    /\ ItFrame

\* The consumer's loop body throws: the loop calls return().
ItConsumerThrows ==
    /\ gen.pc = "suspended"
    /\ gen' = GenClose(gen, "consumerError")
    /\ ItFrame

NextIt == ItNext \/ ItBreak \/ ItConsumerThrows

SpecIt == InitIt /\ [][NextIt]_vars

\* ========================================================= configuration
\* configuration.ts: the module variable globalConfig and resolveConfig.  An
\* options bag maps each option to None (not supplied) or Some(value); the
\* value null is the string "null".  The options stand for their kinds:
\* forceTty and scale admit null and default to null, receipt is a plain
\* option with a non-null default, spinner is a style name looked up in the
\* catalog, theme names a triple of style names.
OptionNames == {"forceTty", "scale", "receipt", "spinner", "theme"}
ResolvedNames == OptionNames \ {"theme"}

OptionValues(o) ==
    IF o = "forceTty" THEN {"null", "true"}
    ELSE IF o = "scale" THEN {"null", "SI"}
    ELSE IF o = "receipt" THEN {"false"}
    ELSE IF o = "spinner" THEN {"dots2"}
    ELSE {"classic"}

Bags == { b \in [OptionNames -> {None} \cup {Some(v) : v \in {"null", "true", "SI", "false", "dots2", "classic"}}] :
            \A o \in OptionNames : b[o] = None \/ b[o][1] \in OptionValues(o) }

EmptyBag == [o \in OptionNames |-> None]

DEFAULT_CONFIG ==
    [o \in ResolvedNames |->
        IF o = "receipt" THEN "true"
        ELSE IF o = "spinner" THEN "default"
        ELSE "null"]

\* getTheme(name).spinner and getSpinner(name) of the style catalog.
GetThemeSpinner(name) == IF name = "classic" THEN "classic" ELSE "dots"
GetSpinner(name) == << "SpinnerFactory", name >>

\* Mutant: a spread in which the left operand wins.
SpreadLeftWins(a, b) ==
    [o \in OptionNames |-> IF a[o] # None THEN a[o] ELSE b[o]]

\* { ...a, ...b }
Spread(a, b) ==
    [o \in OptionNames |-> IF b[o] # None THEN b[o] ELSE a[o]]

\* v ?? d
Coalesce(v, d) == IF v = None \/ v = Some("null") THEN d ELSE v[1]

ResolveConfig(global, options) ==
    LET merged == Spread(global, options)
        themed == merged["theme"] # None /\ merged["theme"][1] # ""
    IN [o \in ResolvedNames |->
          IF o = "spinner"
          THEN GetSpinner(Coalesce(merged[o],
                   IF themed THEN GetThemeSpinner(merged["theme"][1])
                   ELSE "default"))
          ELSE Coalesce(merged[o], DEFAULT_CONFIG[o])]

\* Every variable outside the library specifications, at rest.
RestIdle ==
    /\ EngineIdle
    /\ console = NativeConsole
    /\ hookContext = None
    /\ bars = [b \in Slots |-> NoBar]
    /\ lastCall = NoCall
    /\ gen = NoGen
    /\ exited = FALSE
    /\ exitStatus = None
    /\ lastOp = "start"
    /\ steps = 0

rest == << engineOwn, hookOwn, itOwn, hookContext, exited, exitStatus, lastOp,
          steps >>

InitConfig ==
    /\ RestIdle
    /\ LibIdle("conf")
    /\ conf = [global |-> EmptyBag, options |-> EmptyBag,
               resolved |-> ResolveConfig(EmptyBag, EmptyBag), op |-> "load"]

ConfFrame == UNCHANGED << rest, enrich, fit, line, smoother, fps >>

SetGlobalConfig(options) ==
    /\ conf' = [conf EXCEPT !.global = Spread(conf.global, options),
                            !.op = "setGlobalConfig"]
    /\ ConfFrame

ResetGlobalConfig ==
    /\ conf' = [conf EXCEPT !.global = EmptyBag, !.op = "resetGlobalConfig"]
    /\ ConfFrame

ResolveConfigCall(options) ==
    /\ conf' = [conf EXCEPT !.options = options,
                            !.resolved = ResolveConfig(conf.global, options),
                            !.op = "resolveConfig"]
    /\ ConfFrame

NextConfig ==
    \/ \E options \in Bags : SetGlobalConfig(options)
    \/ ResetGlobalConfig
    \/ \E options \in Bags : ResolveConfigCall(options)

SpecConfig == InitConfig /\ [][NextConfig]_vars

\* ============================================ the global configuration
\* globalConfig as an object: the store holds the bag of the object the
\* module variable refers to now.  An object handed out by getGlobalConfig
\* is kept with a mark telling whether it is that very object, so that a
\* mutation of it by the application reaches the store only through
\* aliasing.  A bar keeps the configuration resolved when it was created.
GlobalBags ==
    {b \in Bags : b["forceTty"] = None /\ b["spinner"] = None
                                       /\ b["theme"] = None}

\* Mutant: getGlobalConfig hands out the stored object itself.
GetGlobalConfigAliased(store) == [bag |-> store, same |-> TRUE]

\* getGlobalConfig(): { ...globalConfig }, a new object.
GetGlobalConfig(store) == [bag |-> store, same |-> FALSE]

InitGlobal ==
    /\ RestIdle
    /\ LibIdle("conf")
    /\ conf = [store |-> EmptyBag, returned |-> None, bar |-> None,
               op |-> "load", n |-> 0,
               \* history: the bags passed to setGlobalConfig since the
               \* last reset, and the configuration of the bar at creation
               sets |-> <<>>, barAtCreation |-> None]

GlobalFrame ==
    /\ conf.n < MaxConfSteps
    /\ UNCHANGED << rest, enrich, fit, line, smoother, fps >>

\* setGlobalConfig(options): the variable is assigned a new merged object.
GlobalSet(options) ==
    /\ GlobalFrame
    /\ conf' = [conf EXCEPT
                   !.store = Spread(conf.store, options),
                   !.returned = IF conf.returned = None THEN None
                                ELSE Some([conf.returned[1] EXCEPT !.same = FALSE]),
                   !.sets = Append(conf.sets, options),
                   !.op = "setGlobalConfig", !.n = conf.n + 1]

\* resetGlobalConfig(): the variable is assigned a new empty object.
GlobalReset ==
    /\ GlobalFrame
    /\ conf' = [conf EXCEPT
                   !.store = EmptyBag,
                   !.returned = IF conf.returned = None THEN None
                                ELSE Some([conf.returned[1] EXCEPT !.same = FALSE]),
                   !.sets = <<>>,
                   !.op = "resetGlobalConfig", !.n = conf.n + 1]

\* getGlobalConfig()
GlobalGet ==
    /\ GlobalFrame
    /\ conf' = [conf EXCEPT !.returned = Some(GetGlobalConfig(conf.store)),
                            !.op = "getGlobalConfig", !.n = conf.n + 1]

\* The application assigns a property of the object it was handed.
GlobalMutate(o, v) ==
    /\ GlobalFrame
    /\ conf.returned # None
    /\ conf' = [conf EXCEPT
                   !.returned = Some([conf.returned[1] EXCEPT !.bag[o] = Some(v)]),
                   !.store = IF conf.returned[1].same
                             THEN [conf.store EXCEPT ![o] = Some(v)]
                             ELSE conf.store,
                   !.op = "mutate", !.n = conf.n + 1]

\* aliveBar(total): state.config = resolveConfig(options), here with no
\* per-call options.
GlobalCreateBar ==
    /\ GlobalFrame
    /\ conf.bar = None
    /\ conf' = [conf EXCEPT
                   !.bar = Some(ResolveConfig(conf.store, EmptyBag)),
                   !.barAtCreation = Some(ResolveConfig(conf.store, EmptyBag)),
                   !.op = "aliveBar", !.n = conf.n + 1]

NextGlobal ==
    \/ \E options \in GlobalBags : GlobalSet(options)
    \/ GlobalReset
    \/ GlobalGet
    \/ \E o \in {"scale", "receipt"} : \E v \in OptionValues(o) : GlobalMutate(o, v)
    \/ GlobalCreateBar

SpecGlobal == InitGlobal /\ [][NextGlobal]_vars

\* ============================================ a render that throws
\* renderFrame calls the spinner and bar functions of the configuration,
\* which may be the application's own and may throw.  The handler ended by a
\* throw is recorded as the last of its calls.
ThrowTok == Tok("throw", NoFrame, "", None)

\* updateDisplay when renderFrame throws: pauseHooks() has been called,
\* nothing after the throw is.
UpdateDisplayThrowCalls(running, paused) ==
    IF ~running \/ paused THEN <<>> ELSE <<PauseHooksTok, ThrowTok>>

\* A pending redraw timer fires and renderFrame throws inside refresh():
\* neither updateDisplay nor refresh has a try/catch, so the rest of both -
\* resumeHooks(), the setTimeout of the next tick - is skipped.
TickThrows(id) ==
    /\ Budget
    /\ ~exited
    /\ id \in pending
    /\ RefreshRuns(isRunning, isPaused)
    /\ pending' = pending \ {id}
    /\ calls' = UpdateDisplayThrowCalls(isRunning, isPaused)
    /\ out' = <<>>
    /\ hookContext' = HooksAfter(hookContext, calls')
    /\ context' = ContextAfter(hookContext', context)
    /\ lastOp' = "tickThrew"
    /\ UNCHANGED << config, total, current, skipped, text, title, isRunning,
                    isPaused, lastFrame, receipt, refreshInterval, startTime,
                    pausedTime, pauseStart, now, timersCreated, sigintHandler,
                    exited, exitStatus, cursor, resumeFns, fedAll, fedSkipped >>

NextThrow ==
    \/ Next
    \/ \E id \in pending : TickThrows(id)

SpecThrow == Init /\ [][NextThrow]_vars

\* ================================================ RateSmoother / ETA
\* Rates and smoothing factors are fractions, compared by cross-multiplying.
FracEq(a, b) == a.num * b.den = b.num * a.den

Alphas == {Frac(1, 10), Frac(1, 2)}

\* The default of the alpha parameter of both constructors.
DefaultAlpha == Frac(1, 10)

\* new ETACalculator(alpha = 0.1) -> new RateSmoother(alpha)
ETACalculatorAlpha(arg) == IF arg = None THEN DefaultAlpha ELSE arg[1]

\* The constructor argument aliveBar passes for a resolved etaAlpha: none.
AliveBarEtaArg(etaAlpha) == None

RECURSIVE Gcd(_, _)
Gcd(a, b) == IF b = 0 THEN a ELSE Gcd(b, a % b)

\* The same number in lowest terms.
Reduce(f) == Frac(f.num \div Gcd(f.num, f.den), f.den \div Gcd(f.num, f.den))

\* alpha * rate + (1 - alpha) * smoothedRate
Blend(alpha, rate, smoothedRate) ==
    Reduce(Frac(alpha.num * rate.num * smoothedRate.den
                    + (alpha.den - alpha.num) * smoothedRate.num * rate.den,
                alpha.den * rate.den * smoothedRate.den))

\* Mutant: the first sample is smoothed against the initial 0 as well.
RateSmootherUpdateFromZero(alpha, smoothedRate, initialized, rate) ==
    Blend(alpha, rate, smoothedRate)

\* RateSmoother.update: the new smoothedRate, which is also returned.
RateSmootherUpdate(alpha, smoothedRate, initialized, rate) ==
    IF initialized THEN Blend(alpha, rate, smoothedRate) ELSE rate

\* A smoother made directly with a factor, or the one inside the
\* ETACalculator of a bar created with option etaAlpha (None: not given).
NewSmoother(origin, etaAlpha, alpha) ==
    [origin |-> origin, etaAlpha |-> etaAlpha, alpha |-> alpha,
     smoothedRate |-> Frac(0, 1), initialized |-> FALSE, lastCount |-> 0,
     returned |-> None, op |-> "new", n |-> 0,
     \* history: the last sample fed, the smoothed rate before it, and the
     \* number of samples fed since construction or the last reset
     sample |-> None, prev |-> Frac(0, 1), updates |-> 0]

InitSmoother ==
    /\ RestIdle
    /\ LibIdle("smoother")
    /\ \/ \E alpha \in Alphas : smoother = NewSmoother("direct", None, alpha)
       \/ \E etaAlpha \in {None} \cup {Some(a) : a \in Alphas} :
              smoother = NewSmoother("aliveBar", etaAlpha,
                                     ETACalculatorAlpha(AliveBarEtaArg(etaAlpha)))

SmootherFrame ==
    /\ smoother.n < MaxUpdates
    /\ UNCHANGED << rest, conf, enrich, fit, line, fps >>

Fed(s, rate) ==
    [s EXCEPT !.smoothedRate = RateSmootherUpdate(s.alpha, s.smoothedRate,
                                                  s.initialized, rate),
              !.initialized = TRUE,
              !.returned = Some(RateSmootherUpdate(s.alpha, s.smoothedRate,
                                                   s.initialized, rate)),
              !.sample = Some(rate), !.prev = s.smoothedRate,
              !.updates = s.updates + 1,
              !.op = "update", !.n = s.n + 1]

\* smoother.update(rate)
SmootherUpdate(rate) ==
    /\ SmootherFrame
    /\ smoother.origin = "direct"
    /\ smoother' = Fed(smoother, Frac(rate, 1))

\* smoother.get()
SmootherGet ==
    /\ SmootherFrame
    /\ smoother' = [smoother EXCEPT !.returned = Some(smoother.smoothedRate),
                                    !.op = "get", !.n = smoother.n + 1]

\* smoother.reset()
SmootherReset ==
    /\ SmootherFrame
    /\ smoother.origin = "direct"
    /\ smoother' = [smoother EXCEPT !.smoothedRate = Frac(0, 1),
                                    !.initialized = FALSE, !.returned = None,
                                    !.updates = 0,
                                    !.op = "reset", !.n = smoother.n + 1]

\* etaCalculator.update(current, total) of a bar, dt milliseconds after the
\* previous one: a sample is fed only when time and count both advanced.
EtaUpdate(cur, dt) ==
    /\ SmootherFrame
    /\ smoother.origin = "aliveBar"
    /\ smoother' =
          IF dt > 0
          THEN IF cur - smoother.lastCount > 0
               THEN [Fed(smoother, Reduce(Frac((cur - smoother.lastCount) * 1000, dt)))
                        EXCEPT !.lastCount = cur]
               ELSE [smoother EXCEPT !.lastCount = cur, !.op = "etaUpdate",
                                     !.n = smoother.n + 1]
          ELSE [smoother EXCEPT !.op = "etaUpdate", !.n = smoother.n + 1]

NextSmoother ==
    \/ \E rate \in 0..MaxRate : SmootherUpdate(rate)
    \/ SmootherGet
    \/ SmootherReset
    \/ \E cur \in 0..MaxRate, dt \in {0, 500, 1000} : EtaUpdate(cur, dt)

SpecSmoother == InitSmoother /\ [][NextSmoother]_vars

\* ============================================================ calibration
\* JavaScript numbers: a finite value (a fraction with a positive
\* denominator), an infinity, or NaN.
Num(n, d) == [k |-> "num", v |-> Frac(n, d)]
PosInf == [k |-> "inf", v |-> Frac(1, 1)]
NegInf == [k |-> "inf", v |-> Frac(0 - 1, 1)]
NaN == [k |-> "nan", v |-> Frac(0, 1)]

\* a < b for numbers other than NaN
NumLt(a, b) ==
    IF a.k = "inf" THEN a.v.num < 0 /\ b # a
    ELSE IF b.k = "inf" THEN b.v.num > 0
    ELSE a.v.num * b.v.den < b.v.num * a.v.den

\* a / b for a finite a > 0
JsDiv(a, b) ==
    IF b.k = "nan" THEN NaN
    ELSE IF b.k = "inf" THEN Num(0, 1)
    ELSE IF b.v.num = 0 THEN PosInf
    ELSE IF b.v.num > 0 THEN Num(a.v.num * b.v.den, a.v.den * b.v.num)
    ELSE Num(0 - a.v.num * b.v.den, a.v.den * (0 - b.v.num))

\* a * b
JsMul(a, b) ==
    IF a.k = "nan" \/ b.k = "nan" THEN NaN
    ELSE IF a.k = "inf" \/ b.k = "inf"
         THEN IF a.v.num = 0 \/ b.v.num = 0 THEN NaN
              ELSE IF (a.v.num > 0) = (b.v.num > 0) THEN PosInf ELSE NegInf
    ELSE Num(a.v.num * b.v.num, a.v.den * b.v.den)

\* Math.max and Math.min: NaN when an argument is NaN
MathMax(a, b) ==
    IF a.k = "nan" \/ b.k = "nan" THEN NaN ELSE IF NumLt(a, b) THEN b ELSE a

MathMin(a, b) ==
    IF a.k = "nan" \/ b.k = "nan" THEN NaN ELSE IF NumLt(b, a) THEN b ELSE a

\* The arguments explored, named by what log10(x + 1) is: x = 10^e - 1 for
\* an integer e (0 for e = 0, -0.9 for e = -1), x = -1, an x below -1,
\* NaN and Infinity.
FpsInputs ==
    {[k |-> "pow", e |-> e] : e \in (0 - 1)..MaxExp}
        \cup {[k |-> s, e |-> 0] : s \in {"minusOne", "belowMinusOne", "nan", "inf"}}

\* x <= 0
LeqZero(x) ==
    \/ x.k = "pow" /\ x.e <= 0
    \/ x.k \in {"minusOne", "belowMinusOne"}

\* Math.log10(x + 1)
Log10Plus1(x) ==
    IF x.k = "pow" THEN Num(x.e, 1)
    ELSE IF x.k = "minusOne" THEN NegInf
    ELSE IF x.k = "inf" THEN PosInf
    ELSE NaN

CalculateFps(rate, calibrate) ==
    IF LeqZero(rate) THEN Num(MIN_FPS, 1)
    ELSE LET adjust == JsDiv(Num(MAX_FPS, 1), Log10Plus1(calibrate))
             f == JsMul(Log10Plus1(rate), adjust)
         IN MathMin(Num(MAX_FPS, 1), MathMax(Num(MIN_FPS, 1), f))

CalculateRefreshInterval(rate, calibrate) ==
    JsDiv(Num(1000, 1), CalculateFps(rate, calibrate))

InitFps ==
    /\ RestIdle
    /\ LibIdle("fps")
    /\ \E rate \in FpsInputs, calibrate \in FpsInputs :
           fps = [rate |-> rate, calibrate |-> calibrate, result |-> NaN,
                  interval |-> NaN, op |-> "input"]

CalculateCall ==
    /\ fps.op = "input"
    /\ fps' = [fps EXCEPT
                  !.result = CalculateFps(fps.rate, fps.calibrate),
                  !.interval = CalculateRefreshInterval(fps.rate, fps.calibrate),
                  !.op = "calculateFps"]
    /\ UNCHANGED << rest, conf, enrich, fit, line, smoother >>

SpecFps == InitFps /\ [][CalculateCall]_vars

\* ===================================== the estimator inside a running bar
\* A running, unpaused bar reduced to what drives its ETACalculator: the
\* counts, the clock, the redraw loop and the eta getter.  Counts are whole
\* items; the clock moves in steps of ClockStep milliseconds.
ClockStep == 500
InitialInterval == 50

\* getFixedInterval(refreshSecs): milliseconds, or None for auto mode.
GetFixedIntervalZeroFixed(refreshSecs) ==
    IF refreshSecs < 0 THEN None ELSE Some(refreshSecs * 1000)

GetFixedInterval(refreshSecs) ==
    IF refreshSecs <= 0 THEN None ELSE Some(refreshSecs * 1000)

\* A delay passed to setTimeout: a number of milliseconds, or the value of
\* calculateRefreshInterval(rate, config.calibrate) for the rate given.
Millis(ms) == [kind |-> "ms", ms |-> ms, rate |-> Frac(0, 1)]
CalculatedInterval(rate) == [kind |-> "calculateRefreshInterval", ms |-> 0,
                             rate |-> rate]

\* new ETACalculator() at time t
NewETACalculator(t) ==
    [smoothedRate |-> Frac(0, 1), initialized |-> FALSE,
     lastCount |-> 0, lastTime |-> t]

\* Mutant: the count anchor is not moved by an update.
ETACalculatorUpdateKeepsAnchor(e, cur, t) ==
    IF t - e.lastTime > 0
    THEN [smoothedRate |->
              IF cur - e.lastCount > 0
              THEN RateSmootherUpdate(DefaultAlpha, e.smoothedRate,
                                      e.initialized,
                                      Reduce(Frac((cur - e.lastCount) * 1000,
                                                  t - e.lastTime)))
              ELSE e.smoothedRate,
          initialized |-> e.initialized \/ cur - e.lastCount > 0,
          lastCount |-> e.lastCount, lastTime |-> t]
    ELSE e

\* Mutant: a sample is fed also when the count has not advanced.
ETACalculatorUpdateFeedsStalls(e, cur, t) ==
    IF t - e.lastTime > 0
    THEN [smoothedRate |->
              RateSmootherUpdate(DefaultAlpha, e.smoothedRate, e.initialized,
                                 Reduce(Frac((cur - e.lastCount) * 1000,
                                             t - e.lastTime))),
          initialized |-> TRUE,
          lastCount |-> cur, lastTime |-> t]
    ELSE e

\* ETACalculator.update(current, total) at time t: the calculator after it.
ETACalculatorUpdate(e, cur, t) ==
    IF t - e.lastTime > 0
    THEN [smoothedRate |->
              IF cur - e.lastCount > 0
              THEN RateSmootherUpdate(DefaultAlpha, e.smoothedRate,
                                      e.initialized,
                                      Reduce(Frac((cur - e.lastCount) * 1000,
                                                  t - e.lastTime)))
              ELSE e.smoothedRate,
          initialized |-> e.initialized \/ cur - e.lastCount > 0,
          lastCount |-> cur, lastTime |-> t]
    ELSE e

\* buildWidgets: whether rendering a frame updates the estimator.
StatsUpdates(stats, tot) == stats /\ Truthy(tot)

EtaConfigs ==
    [ total : {None, Some(0), Some(MaxTotal + 1)}, stats : BOOLEAN,
      refreshSecs : {0 - 1, 0, 1} ]

\* aliveBar(): the estimator is made, a first frame is rendered at once and
\* the first tick is scheduled.
InitEta ==
    /\ RestIdle
    /\ LibIdle("smoother")
    /\ \E cfg \in EtaConfigs :
           smoother = [config |-> cfg, current |-> 0, skipped |-> 0, now |-> 0,
                       eta |-> NewETACalculator(0),
                       delay |-> IF GetFixedInterval(cfg.refreshSecs) # None
                                 THEN Millis(GetFixedInterval(cfg.refreshSecs)[1])
                                 ELSE Millis(InitialInterval),
                       setAt |-> 0, ticks |-> 0, op |-> "aliveBar", n |-> 0,
                       \* history: the count deltas fed to the smoother so
                       \* far, and the advances of the effective count
                       fed |-> 0, advanced |-> 0]

EtaFrame ==
    /\ smoother.n < MaxEtaSteps
    /\ UNCHANGED << rest, conf, enrich, fit, line, fps >>

\* The record after an estimator update with the effective count.
EtaUpdated(s) ==
    LET eff == s.current - s.skipped
        e == ETACalculatorUpdate(s.eta, eff, s.now)
    IN [s EXCEPT !.eta = e,
                 !.fed = IF s.now - s.eta.lastTime > 0 /\ eff - s.eta.lastCount > 0
                         THEN s.fed + (eff - s.eta.lastCount) ELSE s.fed]

\* bar(n, {skipped: flag})
EtaBar(n, flag) ==
    /\ EtaFrame
    /\ LET cur == BarFnCurrent(TRUE, FALSE, smoother.config.total,
                               smoother.current, n)
           skp == BarFnSkipped(TRUE, smoother.skipped, flag, n)
           up == (cur - skp) - (smoother.current - smoother.skipped)
       IN smoother' = [smoother EXCEPT
                          !.current = cur, !.skipped = skp,
                          !.advanced = smoother.advanced + (IF up > 0 THEN up ELSE 0),
                          !.op = "bar", !.n = smoother.n + 1]

\* Date.now() advances.
EtaAdvance ==
    /\ EtaFrame
    /\ smoother' = [smoother EXCEPT !.now = smoother.now + ClockStep,
                                    !.op = "advance", !.n = smoother.n + 1]

\* The pending timer fires, some time after it was set: refresh() renders a
\* frame (buildWidgets may update the estimator) and sets the next timer.
EtaTick ==
    /\ EtaFrame
    /\ smoother.now > smoother.setAt
    /\ LET s == IF StatsUpdates(smoother.config.stats, smoother.config.total)
                THEN EtaUpdated(smoother) ELSE smoother
           fixedInterval == GetFixedInterval(smoother.config.refreshSecs)
       IN smoother' = [s EXCEPT
                          !.delay = IF fixedInterval # None
                                    THEN Millis(fixedInterval[1])
                                    ELSE CalculatedInterval(s.eta.smoothedRate),
                          !.setAt = s.now, !.ticks = s.ticks + 1,
                          !.op = "tick", !.n = s.n + 1]

\* A read of bar.eta.
EtaGetter ==
    /\ EtaFrame
    /\ smoother' = [(IF Truthy(smoother.config.total) THEN EtaUpdated(smoother)
                     ELSE smoother)
                        EXCEPT !.op = "eta", !.n = smoother.n + 1]

NextEta ==
    \/ \E n \in {0 - 1, 1, 2} : EtaBar(n, FALSE)
    \/ EtaBar(1, TRUE)
    \/ EtaAdvance
    \/ EtaTick
    \/ EtaGetter

SpecEta == InitEta /\ [][NextEta]_vars

\* ========================================= renderFrame: bar and spinner
\* The parts renderFrame puts on the line for the mode: the bar drawn for
\* (percent, overflow), a frame of the spinner, a frame of the unknown-mode
\* spinner.  Counts are whole items.
BarPart(percent, overflow) ==
    [part |-> "bar", percent |-> percent, overflow |-> overflow]
SpinnerPart == [part |-> "spinner", percent |-> Frac(0, 1), overflow |-> FALSE]
UnknownPart == [part |-> "unknown", percent |-> Frac(0, 1), overflow |-> FALSE]

\* total ? Math.min(1, actualCurrent / total) : 0
FramePercent(tot, actualCurrent) ==
    IF Truthy(tot)
    THEN (IF actualCurrent > tot[1] THEN Frac(1, 1) ELSE Frac(actualCurrent, tot[1]))
    ELSE Frac(0, 1)

\* total ? actualCurrent > total : false
FrameOverflow(tot, actualCurrent) ==
    IF Truthy(tot) THEN actualCurrent > tot[1] ELSE FALSE

RenderModeParts(tot, cur, skp) ==
    LET actualCurrent == cur - skp
        percent == FramePercent(tot, actualCurrent)
        overflow == FrameOverflow(tot, actualCurrent)
    IN IF tot # None
       THEN <<BarPart(percent, overflow)>>
            \o (IF percent.num < percent.den /\ ~overflow
                THEN <<SpinnerPart>> ELSE <<>>)
       ELSE <<UnknownPart>>

InitFrame ==
    /\ RestIdle
    /\ LibIdle("line")
    /\ \E tot \in {None} \cup {Some(t) : t \in 0..MaxCount},
          cur \in (0 - 1)..(MaxCount + 1), skp \in {0, 1} :
           line = [total |-> tot, current |-> cur, skipped |-> skp,
                   parts |-> <<>>, op |-> "state"]

RenderFrameParts ==
    /\ line.op = "state"
    /\ line' = [line EXCEPT
                   !.parts = RenderModeParts(line.total, line.current,
                                             line.skipped),
                   !.op = "parts"]
    /\ UNCHANGED << rest, conf, enrich, fit, smoother, fps >>

SpecFrame == InitFrame /\ [][RenderFrameParts]_vars

\* ========================================================= enrichMessage
\* Strings are sequences of one-character strings.  The bar is reduced to
\* its raw count, reported to the hook manager by barFn after each increment.
NL == "\n"
MsgChars == {"a", NL}

RECURSIVE StringsUpTo(_, _)
StringsUpTo(chars, n) ==
    IF n = 0 THEN {<<>>}
    ELSE LET shorter == StringsUpTo(chars, n - 1)
         IN shorter \cup {Append(s, c) : s \in {t \in shorter : Len(t) = n - 1},
                                         c \in chars}

DigitChar(d) == <<"0", "1", "2", "3", "4", "5", "6", "7", "8", "9">>[d + 1]

RECURSIVE NatString(_)
NatString(n) ==
    IF n < 10 THEN <<DigitChar(n)>>
    ELSE NatString(n \div 10) \o <<DigitChar(n % 10)>>

\* `${n}` for an integer n.
NumberString(n) == IF n < 0 THEN <<"-">> \o NatString(0 - n) ELSE NatString(n)

\* s.split("\n")
RECURSIVE SplitLines(_)
SplitLines(s) ==
    IF \A i \in 1..Len(s) : s[i] # NL THEN <<s>>
    ELSE LET i == CHOOSE k \in 1..Len(s) :
                      s[k] = NL /\ \A j \in 1..(k - 1) : s[j] # NL
         IN <<SubSeq(s, 1, i - 1)>> \o SplitLines(SubSeq(s, i + 1, Len(s)))

\* lines.join("\n")
RECURSIVE JoinLines(_)
JoinLines(ls) ==
    IF Len(ls) = 1 THEN ls[1]
    ELSE ls[1] \o <<NL>> \o JoinLines(Tail(ls))

\* " ".repeat(n)
Spaces(n) == [i \in 1..n |-> " "]

\* Mutant: continuation lines indented by a fixed eight spaces.
EnrichMessageFixedIndent(message, position, offset) ==
    LET prefix == <<"o", "n", " ">> \o NumberString(position + offset) \o <<":", " ">>
        lines == SplitLines(message)
    IN IF Len(lines) = 1 THEN prefix \o message
       ELSE JoinLines([i \in 1..Len(lines) |->
                (IF i = 1 THEN prefix ELSE Spaces(8)) \o lines[i]])

EnrichMessage(message, position, offset) ==
    LET prefix == <<"o", "n", " ">> \o NumberString(position + offset) \o <<":", " ">>
        indent == Spaces(Len(prefix))
        lines == SplitLines(message)
    IN IF Len(lines) = 1 THEN prefix \o message
       ELSE JoinLines([i \in 1..Len(lines) |->
                (IF i = 1 THEN prefix ELSE indent) \o lines[i]])

\* A bar with enrichPrint on an interactive terminal was created: installHooks
\* starts the position at 0 and keeps config.enrichOffset.
InitEnrich ==
    /\ RestIdle
    /\ LibIdle("enrich")
    /\ \E offset \in {0, 1} :
           enrich = [current |-> 0, position |-> 0, offset |-> offset,
                     message |-> <<>>, result |-> <<>>, op |-> "installHooks"]

EnrichFrame == UNCHANGED << rest, conf, fit, line, smoother, fps >>

\* bar(n): the raw count moves and is reported through updatePosition.
EnrichBar(n) ==
    /\ LET cur == BarFnCurrent(TRUE, FALSE, None, enrich.current, n)
       IN /\ cur \in (0 - 1)..MaxPosition
          /\ enrich' = [enrich EXCEPT !.current = cur, !.position = cur,
                                      !.op = "bar"]
    /\ EnrichFrame

\* console.log(message) with the bridge active: the interceptor enriches.
EnrichPrint(message) ==
    /\ enrich' = [enrich EXCEPT
                     !.message = message,
                     !.result = EnrichMessage(message, enrich.position,
                                              enrich.offset),
                     !.op = "print"]
    /\ EnrichFrame

NextEnrich ==
    \/ \E n \in {0 - 1, 1, 4} : EnrichBar(n)
    \/ \E message \in StringsUpTo(MsgChars, MaxMsgLen) : EnrichPrint(message)

SpecEnrich == InitEnrich /\ [][NextEnrich]_vars

\* ============================================================== fixCells
\* A cell is a grapheme with its display width.  "a" and "-" are one column
\* wide, "W" and "F" stand for graphemes of the wide ranges (two columns).
WideGraphemes == {"W", "F"}

GetCharWidth(char) == IF char \in WideGraphemes THEN 2 ELSE 1

ToCell(grapheme) == [grapheme |-> grapheme, width |-> GetCharWidth(grapheme)]

InputCells == {ToCell("a"), ToCell("W")}
FillChars == {"-", "F"}

RECURSIVE GetCellsWidth(_)
GetCellsWidth(cells) ==
    IF cells = <<>> THEN 0 ELSE Head(cells).width + GetCellsWidth(Tail(cells))

\* Math.ceil(a / b) for a >= 0, b > 0
CeilDiv(a, b) == (a + b - 1) \div b

\* padCells with the default left alignment.
PadCells(cells, targetWidth, fillChar) ==
    LET currentWidth == GetCellsWidth(cells)
        fillCell == ToCell(fillChar)
        fillCount == CeilDiv(targetWidth - currentWidth, fillCell.width)
    IN IF currentWidth >= targetWidth THEN cells
       ELSE cells \o [i \in 1..fillCount |-> fillCell]

RECURSIVE TruncateFrom(_, _, _)
TruncateFrom(cells, maxWidth, width) ==
    IF cells = <<>> \/ width + Head(cells).width > maxWidth THEN <<>>
    ELSE <<Head(cells)>>
         \o TruncateFrom(Tail(cells), maxWidth, width + Head(cells).width)

TruncateCells(cells, maxWidth) == TruncateFrom(cells, maxWidth, 0)

FixCells(cells, targetWidth, fillChar) ==
    LET currentWidth == GetCellsWidth(cells)
    IN IF currentWidth = targetWidth THEN cells
       ELSE IF currentWidth > targetWidth THEN TruncateCells(cells, targetWidth)
       ELSE PadCells(cells, targetWidth, fillChar)

InitFit ==
    /\ RestIdle
    /\ LibIdle("fit")
    /\ \E cells \in StringsUpTo(InputCells, MaxCells), targetWidth \in 0..MaxWidth,
          fillChar \in FillChars :
           fit = [cells |-> cells, targetWidth |-> targetWidth,
                  fillChar |-> fillChar, result |-> <<>>, op |-> "input"]

FixCellsCall ==
    /\ fit.op = "input"
    /\ fit' = [fit EXCEPT
                  !.result = FixCells(fit.cells, fit.targetWidth, fit.fillChar),
                  !.op = "fixCells"]
    /\ UNCHANGED << rest, conf, enrich, line, smoother, fps >>

SpecFit == InitFit /\ [][FixCellsCall]_vars

\* ============================================== renderFrame: truncation
\* The joined line is a sequence of graphemes: "a" is one UTF-16 code unit
\* and one column, "W" (CJK) one code unit and two columns, "E" (an emoji
\* outside the BMP) two code units - the surrogates "Eh" "El" - and two
\* columns.  A JavaScript string is its sequence of code units.
LineGraphemes == {"a", "W", "E"}

RECURSIVE CodeUnits(_)
CodeUnits(graphemes) ==
    IF graphemes = <<>> THEN <<>>
    ELSE (IF Head(graphemes) = "E" THEN <<"Eh", "El">> ELSE <<Head(graphemes)>>)
         \o CodeUnits(Tail(graphemes))

\* getStringWidth of a string given by its code units: a surrogate pair is
\* one grapheme of width 2, a lone surrogate is a grapheme whose code point
\* lies in no wide range (width 1).
RECURSIVE GetStringWidth(_)
GetStringWidth(units) ==
    IF units = <<>> THEN 0
    ELSE IF Len(units) >= 2 /\ units[1] = "Eh" /\ units[2] = "El"
         THEN 2 + GetStringWidth(SubSeq(units, 3, Len(units)))
    ELSE IF Head(units) = "W" THEN 2 + GetStringWidth(Tail(units))
    ELSE 1 + GetStringWidth(Tail(units))

\* String.prototype.slice(0, end)
Slice0(units, end) ==
    LET len == Len(units)
        to == IF end < 0 THEN (IF len + end > 0 THEN len + end ELSE 0)
              ELSE (IF end < len THEN end ELSE len)
    IN SubSeq(units, 1, to)

Ellipsis == <<".", ".", ".">>

\* The "Truncate if too long" step of renderFrame.
TruncateLine(units, termWidth) ==
    IF GetStringWidth(units) > termWidth
    THEN Slice0(units, termWidth - 3) \o Ellipsis
    ELSE units

InitLine ==
    /\ RestIdle
    /\ LibIdle("line")
    /\ \E graphemes \in StringsUpTo(LineGraphemes, MaxLineLen),
          termWidth \in 1..MaxTermWidth :
           line = [graphemes |-> graphemes, termWidth |-> termWidth,
                   result |-> <<>>, op |-> "input"]

RenderFrameLine ==
    /\ line.op = "input"
    /\ line' = [line EXCEPT
                   !.result = TruncateLine(CodeUnits(line.graphemes),
                                           line.termWidth),
                   !.op = "renderFrame"]
    /\ UNCHANGED << rest, conf, enrich, fit, smoother, fps >>

SpecLine == InitLine /\ [][RenderFrameLine]_vars

\* ================================================================ claims

HasFrame(ws) == \E i \in 1..Len(ws) : ws[i].k = "frame"

\* C1: the receipt satisfies success = ~(overflow \/ underflow), overflow and
\* underflow are never both true, and both are false when total is null.
C1_ReceiptInvariant ==
    receipt # None =>
        LET r == receipt[1]
        IN /\ r.success = ~(r.overflow \/ r.underflow)
           /\ ~(r.overflow /\ r.underflow)
           /\ (total = None => ~r.overflow /\ ~r.underflow)

\* done() after increments on a bar with total null.
C1_Witness ==
    lastOp = "done" /\ total = None /\ receipt # None /\ receipt[1].count > 0

\* C2 as stated: bar.receipt is null before finalization and, once set, never
\* changes under any later operation, a second done() included.
C2_ReceiptNeverChanges ==
    /\ [](isRunning => BarReceipt = None)
    /\ [][BarReceipt # None => BarReceipt' = BarReceipt]_vars

\* C2 amended: bar.receipt is null before finalization and, once set, is
\* changed by no later operation other than a further done().
C2_ReceiptChangedOnlyByDone ==
    /\ [](isRunning => BarReceipt = None)
    /\ [][(BarReceipt # None /\ lastOp' # "done") => BarReceipt' = BarReceipt]_vars

\* An operation on the handle after done(), the clock having advanced since.
C2_Witness ==
    /\ receipt # None
    /\ lastOp = "setText"
    /\ Elapsed # receipt[1].elapsed

\* C3: a bar(n, opts) call after done() leaves the raw count, the skipped
\* count, bar.current and the receipt unchanged.
C3_BarAfterDoneIsNoOp ==
    [][(~isRunning /\ lastOp' = "bar") =>
          /\ UNCHANGED << current, skipped, receipt >>
          /\ BarCurrent' = BarCurrent]_vars

\* bar() was called after done(), in manual mode.
C3_Witness ==
    lastOp = "bar" /\ ~isRunning /\ receipt # None /\ config.manual

\* C4 as stated: after finalization text, title, isPaused and the timer's
\* paused state stay as they were.
C4_NoMutationAfterFinalize ==
    [][~isRunning => UNCHANGED << text, title, isPaused, pauseStart >>]_vars

\* C5: in non-manual mode bar.current is the sum of the counts passed minus
\* the sum of the counts passed with the skipped flag, and so is the
\* receipt's count.
C5_EffectiveCount ==
    ~config.manual =>
        /\ BarCurrent = fedAll - fedSkipped
        /\ receipt # None => receipt[1].count = fedAll - fedSkipped

\* Skipped and counted increments were interleaved before done().
C5_Witness ==
    /\ ~config.manual
    /\ lastOp = "done"
    /\ fedSkipped > 0
    /\ fedAll > fedSkipped

\* C6 as stated: in manual mode bar(v) sets the raw count to v * total when
\* total is a number (0 included) and to v * 100 when total is null.
C6_ManualSetsFractionOfTotal ==
    [][(isRunning /\ config.manual /\ lastOp' = "bar") =>
          current' = (fedAll' - fedAll)
                       * (IF total # None THEN total[1] ELSE ManualBase)]_vars

\* C7 as stated: whenever the bar is running and not paused a redraw tick is
\* pending.
C7_TickPendingWhileActive ==
    (~exited /\ isRunning /\ ~isPaused) => pending # {}

\* C8: at most one redraw timer is pending in every reachable state.
C8_AtMostOneTimer == Cardinality(pending) <= 1

\* A tick rescheduled itself after a pause and a resume.
C8_Witness ==
    /\ lastOp = "tick"
    /\ resumeFns > 0
    /\ timersCreated > 1
    /\ Cardinality(pending) = 1

\* C9: once the bar is finalized no redraw timer is pending and no status
\* frame is rendered or written by any later operation.
C9_NothingAfterDone ==
    /\ [](~isRunning => pending = {} /\ ~HasFrame(out))
    /\ [][~isRunning => lastFrame' = lastFrame]_vars

\* A resume closure obtained before done() was invoked after it on a TTY.
C9_Witness ==
    ~isRunning /\ lastOp = "resume" /\ config.term = "tty"

\* C10 as stated: after finalization on an interactive terminal the cursor
\* is visible, whatever handle operations follow.
C10_CursorVisibleAfterDone ==
    (~isRunning /\ IsInteractive(config.term)) => cursor = "shown"

\* C11: Timer.elapsed() is now - startTime - pausedTime - (the time since the
\* current pause began, if paused); over every step it never decreases, it
\* is constant while the timer stays paused whatever the clock does, and
\* pause() and resume() themselves (the clock standing still) do not move it.
C11_ElapsedFollowsClock ==
    [][ /\ Elapsed = now - startTime - pausedTime
                      - (IF pauseStart # None THEN now - pauseStart[1] ELSE 0)
        /\ Elapsed' >= Elapsed
        /\ (pauseStart # None /\ pauseStart' # None => Elapsed' = Elapsed)
        /\ (now' = now => Elapsed' = Elapsed) ]_vars

\* A bar that ran, was paused while the clock advanced, and was resumed.
C11_Witness == lastOp = "resume" /\ pausedTime > 0 /\ Elapsed > 0

\* C12: while isPaused is true no operation writes a status frame to the
\* stream, neither a redraw tick nor an intercepted print (and bar() still
\* advances the count).
C12_NoFrameWhilePaused == isPaused => ~HasFrame(out)

\* Whether every writer call among cs is made with the bridge paused: the
\* hook call that precedes it last is pauseHooks().
BridgePausedDuringWrites(cs) ==
    \A i \in 1..Len(cs) :
        cs[i].k \notin {"pauseHooks", "resumeHooks"} =>
            \E j \in 1..(i - 1) :
                /\ cs[j].k = "pauseHooks"
                /\ \A l \in (j + 1)..(i - 1) : cs[l].k # "resumeHooks"

\* C13: an intercepted print while the bar is running writes exactly
\* clear-line, the message line, the last rendered frame; the bridge is paused
\* for all of these writes and active again afterwards; the writes of one
\* operation are contiguous, so the frame is the last thing on the terminal.
C13_PrintWriteSequence ==
    (lastOp = "print" /\ isRunning) =>
        /\ hookContext # None
        /\ hookContext[1].isActive
        /\ \E m \in Messages :
               out = <<ClearTok, LineTok(m, Some(hookContext[1].position)),
                       FrameTok(lastFrame)>>
        /\ BridgePausedDuringWrites(calls)
        /\ calls[Len(calls)] = ResumeHooksTok

\* A print made after the count moved on from the last rendered frame.
C13_Witness ==
    /\ lastOp = "print"
    /\ isRunning
    /\ HasFrame(out)
    /\ lastFrame.count # current - skipped

\* C14: while the bridge is installed, a console.log/error/warn call made
\* with the bridge active hands the message to onPrint exactly once and does
\* not call the original function; a call made with the bridge paused calls
\* the original function (once) and does not invoke onPrint.
C14_InterceptorArbitration ==
    [][ (lastOp' = "console" /\ hookContext # None) =>
            IF hookContext[1].isActive
            THEN /\ Len(lastCall'.onPrint) = 1
                 /\ lastCall'.original = <<>>
            ELSE /\ lastCall'.onPrint = <<>>
                 /\ lastCall'.original =
                        <<OriginalOf(hookContext[1], lastCall'.name)>> ]_vars

\* A console call that went to the original function because the installed
\* bridge was paused.
C14_Witness ==
    /\ lastOp = "console"
    /\ hookContext # None
    /\ ~hookContext[1].isActive
    /\ lastCall.original # <<>>
    /\ lastCall.name = "warn"

\* C15: when a bar whose installHooks call installed the bridge is finalized,
\* by done() or by the interrupt handler, console.log, console.error and
\* console.warn are again the functions they were just before that bar was
\* created, and hooksInstalled() is false.
C15_ConsoleRestoredAfterFinalize ==
    [][ \A b \in Slots :
            ( /\ lastOp' \in {"done", "sigint"}
              /\ lastCall'.bar = b
              /\ bars[b].installed ) =>
                /\ console' = bars[b].before
                /\ ~HooksInstalled' ]_vars

\* The interrupt handler finalized a bar that had replaced an application's
\* own console.log by an interceptor, and console.log is the application's
\* function again.
C15_Witness ==
    /\ lastOp = "sigint"
    /\ \E b \in Slots : lastCall.bar = b /\ bars[b].installed
    /\ console = AppConsole

\* C16: two bars alive together are independent: an increment, a redraw or
\* done() of one bar leaves console interception installed while the other
\* bar, whose prints it serves, is still running, and does not change the
\* position that prefixes the other bar's prints.
C16_BarsIndependent ==
    [][ \A b \in Slots, o \in Slots :
            ( /\ b # o
              /\ lastOp' \in {"bar", "tick", "done"}
              /\ lastCall'.bar = b
              /\ bars[o].state = "running"
              /\ HooksInstalled
              /\ hookContext[1].printFn = o ) =>
                /\ HooksInstalled'
                /\ hookContext'[1].position = hookContext[1].position ]_vars

\* C17: once iteration of aliveIt / aliveItSync has started, the bar is
\* finalized exactly once when the generator is left, whatever the exit path
\* (source exhausted, consumer breaks, consumer throws, source throws), and
\* not before; the elements yielded are the source's elements in order.
C17_FinalizedOncePassThrough ==
    /\ gen.pc = "closed" => gen.finalized = 1
    /\ gen.pc = "suspended" => gen.finalized = 0
    /\ Len(gen.yielded) <= Len(gen.source.items)
    /\ gen.yielded = SubSeq(gen.source.items, 1, Len(gen.yielded))
    /\ gen.exit \in {"exhausted", "sourceError"} => gen.yielded = gen.source.items

\* The consumer threw after it had received two of three elements.
C17_Witness ==
    /\ gen.exit = "consumerError"
    /\ Len(gen.yielded) = 2
    /\ Len(gen.source.items) = 3
    /\ gen.finalized = 1

\* C18: at finalization the receipt's count is the number of elements the
\* consumer received, when the source is exhausted and when the consumer
\* stops early after k elements.
C18_CountIsElementsReceived ==
    gen.pc = "closed" => gen.receipt[1].count = Len(gen.yielded) * Scale

\* C19: with interrupt handling enabled, an interrupt finalizes the bar only
\* while it has not been finalized (the handler is deregistered by done(), so
\* no interrupt finalizes a bar again after done()), and an interrupt that
\* does finalize then ends the process with exit status 130, after which
\* nothing runs.
C19_InterruptFinalizesOnce ==
    [][ /\ lastOp' = "sigint" =>
              /\ config.ctrlC
              /\ isRunning /\ receipt = None
              /\ ~isRunning' /\ receipt' # None
              /\ exited' /\ exitStatus' = Some(SigintExitStatus)
        /\ (lastOp' = "done" /\ ~exited') => ~sigintHandler'
        /\ (~isRunning /\ ~exited) => ~sigintHandler
        /\ ~exited ]_vars

\* An interrupt arrived before done() on a bar that had counted something.
C19_Witness ==
    /\ lastOp = "sigint"
    /\ exited
    /\ receipt # None
    /\ receipt[1].count > 0

\* C20: the receipt made by a finalization has total = the bar's total and
\* count = the effective count (raw minus skipped); with a known total,
\* overflow is exactly count > total and underflow exactly count < total;
\* rate is count / elapsed, and 0 when elapsed is 0.  Hence a count equal to
\* the total gives percent 100 and success, and outside manual mode the
\* count is the sum of the increments made, less the skipped ones.
C20_ReceiptContents ==
    [][ (lastOp' \in {"done", "sigint"} /\ now' = now) =>
          LET r == receipt'[1]
              c == current - skipped
          IN /\ r.total = total
             /\ r.count = c
             /\ total # None =>
                   /\ r.overflow <=> c > total[1] * Scale
                   /\ r.underflow <=> c < total[1] * Scale
             /\ r.elapsed = Elapsed
             /\ IF Elapsed = 0 THEN r.rate.num = 0
                ELSE r.rate.num * Elapsed = c * r.rate.den
             /\ (total # None /\ c = total[1] * Scale) =>
                   /\ r.percent.num = 100 * r.percent.den
                   /\ r.success
             /\ ~config.manual => r.count = fedAll - fedSkipped ]_vars

\* A bar with total 1 finalized after exactly one unit increment and some
\* elapsed time, one item having been skipped along the way.
C20_Witness ==
    /\ lastOp = "done"
    /\ total = Some(1)
    /\ ~config.manual
    /\ receipt # None
    /\ receipt[1].count = Scale
    /\ receipt[1].success
    /\ receipt[1].elapsed > 0

\* What an option resolves to when a value v is chosen for it.
ResolvedValue(o, v) == IF o = "spinner" THEN GetSpinner(v) ELSE v

C21_Theme ==
    IF conf.options["theme"] # None THEN conf.options["theme"]
    ELSE conf.global["theme"]

C23_EnrichedMessage ==
    enrich.op = "print" =>
        LET prefix == <<"o", "n", " ">>
                      \o NumberString(enrich.current + enrich.offset)
                      \o <<":", " ">>
            given == SplitLines(enrich.message)
            made == SplitLines(enrich.result)
        IN /\ Len(made) = Len(given)
           /\ made[1] = prefix \o given[1]
           /\ \A i \in 2..Len(made) :
                  /\ SubSeq(made[i], 1, Len(prefix)) = Spaces(Len(prefix))
                  /\ SubSeq(made[i], Len(prefix) + 1, Len(made[i])) = given[i]

\* A two-line message printed at a two-digit position.
C23_Witness ==
    /\ enrich.op = "print"
    /\ enrich.current + enrich.offset >= 10
    /\ enrich.message = <<"a", NL, "a">>

\* C24: for every cell sequence, target width n >= 0 and fill character,
\* fixCells returns cells of total display width exactly n, each a whole
\* input cell or a whole fill cell.
C24_FitExactWidth ==
    fit.op = "fixCells" =>
        /\ GetCellsWidth(fit.result) = fit.targetWidth
        /\ \A i \in 1..Len(fit.result) :
               \/ \E j \in 1..Len(fit.cells) : fit.result[i] = fit.cells[j]
               \/ fit.result[i] = ToCell(fit.fillChar)

\* C25: a single-line frame is at most as wide as the terminal; a line wider
\* than the terminal is cut to whole graphemes totalling at most width-3
\* cells followed by "...".
C25_FrameFitsTerminal ==
    line.op = "renderFrame" =>
        /\ GetStringWidth(line.result) <= line.termWidth
        /\ GetStringWidth(CodeUnits(line.graphemes)) > line.termWidth =>
               \E k \in 0..Len(line.graphemes) :
                   LET kept == CodeUnits(SubSeq(line.graphemes, 1, k))
                   IN /\ GetStringWidth(kept) <= line.termWidth - 3
                      /\ line.result = kept \o Ellipsis

\* What the bar itself put on the stream: the writes other than those of the
\* application's own console calls passing through the original functions.
BarWrites(ws) == SelectSeq(ws, LAMBDA t : t.k # "original")

\* C26: on a non-TTY stream nothing is written at start, and no operation
\* writes anything except a finalizing one (done() or the interrupt), which
\* writes exactly the receipt line when receipts are enabled and nothing
\* when they are disabled.
C26_NonTTYOnlyReceipt ==
    /\ config.term = "nontty" => BarWrites(out) = <<>>
    /\ [][ (config.term = "nontty" /\ now' = now) =>
             LET ws == BarWrites(out')
             IN IF lastOp' \in {"done", "sigint"} /\ config.receipt
                THEN Len(ws) = 1 /\ ws[1].k = "receipt"
                ELSE ws = <<>> ]_vars

\* The receipt line of a non-TTY bar finalized after an increment.
C26_Witness ==
    /\ config.term = "nontty"
    /\ config.receipt
    /\ lastOp = "done"
    /\ fedAll > 0
    /\ Len(out) = 1
    /\ out[1].k = "receipt"

\* C27: after done() the receipt is set, with count, total, overflow,
\* underflow and success determined by the counts alone, whatever the output
\* settings; a disabled bar never writes anything, and with receipt = false
\* no summary line is written.
C27_ReceiptWhateverOutput ==
    /\ config.term = "void" => BarWrites(out) = <<>>
    /\ ~config.receipt => \A i \in 1..Len(out) : out[i].k # "receipt"
    /\ lastOp \in {"done", "sigint"} =>
          /\ receipt # None
          /\ LET r == receipt[1]
                 c == current - skipped
             IN /\ r.total = total
                /\ r.count = c
                /\ r.overflow <=> (total # None /\ c > total[1] * Scale)
                /\ r.underflow <=> (total # None /\ c < total[1] * Scale)
                /\ r.success <=> ~(r.overflow \/ r.underflow)

\* A disabled bar with receipt = false, completed and finalized by done().
C27_Witness ==
    /\ config.term = "void"
    /\ ~config.receipt
    /\ lastOp = "done"
    /\ receipt # None
    /\ receipt[1].success
    /\ receipt[1].count = Scale

\* C28: an exception raised while rendering inside a redraw tick does not
\* leave the timer callback; afterwards the engine keeps ticking or has
\* stopped rendering, and the print bridge is active, not stuck paused.
C28_RenderErrorContained ==
    lastOp = "tickThrew" =>
        /\ \A i \in 1..Len(calls) : calls[i] # ThrowTok
        /\ \/ refreshInterval # None /\ refreshInterval[1] \in pending
           \/ ~isRunning
        /\ hookContext # None => hookContext[1].isActive

\* C22: for a bar created with etaAlpha = a, the second and every later rate
\* sample updates the smoothed rate as a*sample + (1-a)*previous; 0.1 is
\* used only when the option is not given.
C22_ConfiguredEtaAlpha ==
    (smoother.origin = "aliveBar" /\ smoother.op = "update"
                                  /\ smoother.updates >= 2) =>
        LET a == IF smoother.etaAlpha = None THEN Frac(1, 10)
                 ELSE smoother.etaAlpha[1]
        IN FracEq(smoother.smoothedRate,
                  Blend(a, smoother.sample[1], smoother.prev))

\* C29: get() is 0 before any update; the first update(x) returns exactly x;
\* every later update(y) returns a*y + (1-a)*previous; after reset() get() is
\* 0 and the next update behaves as a first update again.
C29_RateSmoother ==
    smoother.origin = "direct" =>
        LET a == smoother.alpha
            r == smoother.returned[1]
            y == smoother.sample[1]
            p == smoother.prev
        IN /\ smoother.updates = 0 =>
                 FracEq(smoother.smoothedRate, Frac(0, 1))
           /\ (smoother.op = "get" /\ smoother.updates = 0) =>
                 FracEq(r, Frac(0, 1))
           /\ (smoother.op = "update" /\ smoother.updates = 1) => r = y
           /\ (smoother.op = "update" /\ smoother.updates >= 2) =>
                 r.num * (a.den * y.den * p.den)
                     = r.den * (a.num * y.num * p.den
                                + (a.den - a.num) * p.num * y.den)
           /\ smoother.op = "update" => r = smoother.smoothedRate

\* A second update of a smoother with factor 1/2: 2 after 0 gives 1.
C29_Witness ==
    /\ smoother.origin = "direct"
    /\ smoother.alpha = Frac(1, 2)
    /\ smoother.op = "update"
    /\ smoother.updates = 2
    /\ smoother.sample = Some(Frac(2, 1))
    /\ FracEq(smoother.prev, Frac(0, 1))
    /\ FracEq(smoother.returned[1], Frac(1, 1))

\* C30: calculateFps lies in [2, 60] for every rate and every calibration
\* value and is 2 for every rate <= 0; calculateRefreshInterval is 500 ms at
\* zero throughput and never shorter than 1000/60 ms.
C30_FpsInRange ==
    fps.op = "calculateFps" =>
        /\ fps.result.k = "num"
        /\ ~NumLt(fps.result, Num(2, 1))
        /\ ~NumLt(Num(60, 1), fps.result)
        /\ LeqZero(fps.rate) => fps.result = Num(2, 1)
        /\ fps.interval.k = "num"
        /\ ~NumLt(fps.interval, Num(1000, 60))
        /\ fps.rate = [k |-> "pow", e |-> 0] =>
               fps.interval.v.num = 500 * fps.interval.v.den

\* C31: under any interleaving of redraw ticks and bar.eta reads the count
\* deltas fed to the smoother sum to at most the current effective count.
C31_FedWithinCount ==
    smoother.fed <= smoother.current - smoother.skipped

\* C31, amended: the count deltas fed to the smoother sum to at most the
\* advances the effective count has made - which is the current effective
\* count as long as the count has never decreased.
C31_FedWithinAdvances ==
    /\ smoother.fed <= smoother.advanced
    /\ smoother.advanced = smoother.current - smoother.skipped =>
           smoother.fed <= smoother.current - smoother.skipped

\* Two samples fed, one by a tick and one by a read of bar.eta, covering
\* every advance of a count that never decreased.
C31_Witness ==
    /\ smoother.op = "eta"
    /\ smoother.ticks >= 1
    /\ smoother.fed = 3
    /\ smoother.advanced = 3
    /\ smoother.current - smoother.skipped = 3
    /\ smoother.eta.lastCount = 3

\* C32: an ETACalculator.update call whose count delta or time delta since
\* the last anchored observation is zero or negative leaves the smoothed
\* rate unchanged: no sample is fed.
C32_StallKeepsRate ==
    [][ ( /\ \/ smoother'.op = "eta" /\ Truthy(smoother.config.total)
             \/ smoother'.op = "tick"
                  /\ StatsUpdates(smoother.config.stats, smoother.config.total)
          /\ \/ (smoother.current - smoother.skipped) - smoother.eta.lastCount <= 0
             \/ smoother.now - smoother.eta.lastTime <= 0 ) =>
          /\ smoother'.eta.smoothedRate = smoother.eta.smoothedRate
          /\ smoother'.eta.initialized = smoother.eta.initialized
          /\ smoother'.fed = smoother.fed ]_vars

\* A second tick with no progress since the first, the rate of 2/s kept.
C32_Witness ==
    /\ smoother.op = "tick"
    /\ smoother.ticks = 2
    /\ smoother.eta.lastTime = smoother.now
    /\ smoother.eta.lastCount = smoother.current - smoother.skipped
    /\ smoother.fed = 1
    /\ smoother.eta.smoothedRate = Frac(2, 1)
    /\ smoother.now = 2 * ClockStep

\* C33: every redraw tick of a running bar with known total updates the
\* estimator with the current effective count, whether or not the stats
\* widget is enabled.
C33_TickUpdatesEstimator ==
    [][ (smoother'.op = "tick" /\ smoother.config.total # None) =>
          /\ smoother'.eta.lastCount = smoother.current - smoother.skipped
          /\ smoother'.eta.lastTime = smoother.now ]_vars

\* C34: with refreshSecs > 0 every tick, the first included, is scheduled
\* refreshSecs * 1000 ms after the previous one; with refreshSecs <= 0 the
\* first tick comes after 50 ms and each later delay is
\* calculateRefreshInterval of the smoothed rate as it is at that tick.
C34_TickIntervals ==
    IF smoother.config.refreshSecs > 0
    THEN smoother.delay = [kind |-> "ms",
                           ms |-> smoother.config.refreshSecs * 1000,
                           rate |-> Frac(0, 1)]
    ELSE /\ smoother.ticks = 0 =>
                smoother.delay = [kind |-> "ms", ms |-> 50, rate |-> Frac(0, 1)]
         /\ smoother.ticks > 0 => smoother.delay.kind = "calculateRefreshInterval"
         /\ smoother.op = "tick" =>
                smoother.delay.rate = smoother.eta.smoothedRate

\* In auto mode, a tick that measured 2 items/s and scheduled the next tick
\* by that rate.
C34_Witness ==
    /\ smoother.config.refreshSecs = 0
    /\ smoother.op = "tick"
    /\ smoother.fed = 1
    /\ smoother.delay.kind = "calculateRefreshInterval"
    /\ smoother.delay.rate = Frac(2, 1)

\* C35: renderFrame shows the bar with one spinner frame exactly when total
\* is known and the effective count is below total; at or above total it
\* shows the bar without a spinner, the overflow flag set iff the effective
\* count exceeds total; with total null it shows only the unknown-mode
\* spinner.
C35_BarAndSpinner ==
    line.op = "parts" =>
        LET c == line.current - line.skipped
            ps == line.parts
        IN IF line.total = None
           THEN Len(ps) = 1 /\ ps[1].part = "unknown"
           ELSE /\ ps[1].part = "bar"
                /\ ps[1].overflow <=> c > line.total[1]
                /\ IF c < line.total[1]
                   THEN Len(ps) = 2 /\ ps[2].part = "spinner"
                   ELSE Len(ps) = 1

\* C36: while the bar is running on an interactive terminal the cursor is
\* hidden exactly when the bar is not paused; pause() stops the clock,
\* clears the line and shows the cursor; the resume closure restarts the
\* clock, hides the cursor and forces exactly one redraw.
C36_CursorFollowsPause ==
    /\ []((isRunning /\ IsInteractive(config.term)) =>
             (cursor = "hidden" <=> ~isPaused))
    /\ [][ (isRunning /\ IsInteractive(config.term)) =>
             /\ lastOp' = "pause" =>
                   /\ isPaused'
                   /\ pauseStart' # None
                   /\ out' = <<ClearTok, ShowTok>>
             /\ lastOp' = "resume" =>
                   /\ ~isPaused'
                   /\ pauseStart' = None
                   /\ out' = <<HideTok, ClearTok,
                               FrameTok(RenderFrame(title, current, skipped, text))>>
                   /\ lastFrame' = RenderFrame(title, current, skipped, text) ]_vars

\* A running bar on a TTY, paused twice and resumed, the clock having moved
\* while it was paused.
C36_Witness ==
    /\ isRunning
    /\ IsInteractive(config.term)
    /\ lastOp = "resume"
    /\ cursor = "hidden"
    /\ pausedTime > 0
    /\ steps >= 3

\* C37: while a bar is running on a writer that writes frames (a TTY, or TTY
\* mode forced), every console call of the application goes through the
\* print path (clear line, message line, frame) and none is written directly
\* to the stream, whether or not enrichPrint is enabled.
C37_ConsoleThroughPrintPath ==
    (isRunning /\ config.term \in {"tty", "forced"}
               /\ lastOp \in {"print", "log"}) =>
        /\ \A i \in 1..Len(out) : out[i].k # "original"
        /\ Len(out) >= 2
        /\ out[1] = ClearTok
        /\ out[2].k = "line"

\* The value the last of the bags ss that supplies option o gives it.
RECURSIVE LastSet(_, _)
LastSet(ss, o) ==
    IF ss = <<>> THEN None
    ELSE IF ss[Len(ss)][o] # None THEN ss[Len(ss)][o]
    ELSE LastSet(SubSeq(ss, 1, Len(ss) - 1), o)

\* C38: after any sequence of setGlobalConfig and resetGlobalConfig calls the
\* global configuration is the key-wise merge, later calls winning, of the
\* options set since the last reset (empty right after a reset), and that is
\* what getGlobalConfig returns; mutating the returned object does not change
\* it; a bar already created keeps the configuration resolved at creation.
C38_GlobalConfigMerge ==
    /\ [](/\ \A o \in OptionNames : conf.store[o] = LastSet(conf.sets, o)
          /\ conf.op = "resetGlobalConfig" => conf.store = EmptyBag
          /\ conf.op = "getGlobalConfig" =>
                 \A o \in OptionNames :
                     conf.returned[1].bag[o] = LastSet(conf.sets, o)
          /\ conf.bar = conf.barAtCreation)
    /\ [][conf'.op = "mutate" => conf'.store = conf.store]_vars

\* scale was set, the configuration read back, and the object that was
\* handed out then given another scale: the store still holds the one set.
C38_Witness ==
    /\ conf.op = "mutate"
    /\ Len(conf.sets) = 1
    /\ conf.sets[1]["scale"] = Some("SI")
    /\ conf.store["scale"] = Some("SI")
    /\ conf.returned[1].bag["scale"] = Some("null")
    /\ conf.n = 3

\* C39: a pause() made while the bar is already paused leaves elapsed time
\* where the first pause froze it, and it stays there while the clock moves;
\* one call of a resume closure of a running bar, however many closures
\* pause() has returned, leaves the bar unpaused with the clock running and
\* draws exactly one frame.
C39_DoublePauseSingleResume ==
    [][ /\ (isPaused /\ lastOp' = "pause" /\ now' = now) =>
               /\ pauseStart' = pauseStart
               /\ Elapsed' = Elapsed
        /\ (isPaused /\ isPaused') =>
               Elapsed' = pauseStart[1] - startTime - pausedTime
        /\ (isRunning /\ resumeFns >= 2 /\ lastOp' = "resume" /\ now' = now) =>
               /\ ~isPaused'
               /\ pauseStart' = None
               /\ Elapsed' = Elapsed
               /\ Len(SelectSeq(calls', LAMBDA t : t.k = "frame")) = 1 ]_vars

\* A running bar was paused, paused again after the clock had moved, and one
\* of the two resume closures was then invoked.
C39_Witness ==
    /\ isRunning
    /\ lastOp = "resume"
    /\ resumeFns = 2
    /\ ~isPaused
    /\ pausedTime > 0

\* C40: installHooks made while a context is installed leaves the first
\* caller's printFn, enrichment flag, offset and saved console functions in
\* place and the console bindings as they are; one uninstallHooks then puts
\* back the functions that were bound before the first install, none of them
\* an interceptor; with no context installed uninstallHooks, pauseHooks,
\* resumeHooks and updatePosition change nothing.
C40_InstallOnceUninstallOnce ==
    [][ /\ \A b \in Slots :
              ( /\ hookContext # None
                /\ lastOp' = "aliveBar"
                /\ lastCall'.bar = b
                /\ bars'[b].wants ) =>
                  /\ hookContext' # None
                  /\ \A f \in {"printFn", "enrichPrint", "enrichOffset",
                               "originalLog", "originalError", "originalWarn",
                               "position"} :
                         hookContext'[1][f] = hookContext[1][f]
                  /\ console' = console
        /\ (hookContext # None /\ lastOp' \in {"done", "sigint"}) =>
              /\ hookContext' = None
              /\ console' = bars[hookContext[1].printFn].before
              /\ \A name \in Names : console'[name].kind # "interceptor"
        /\ ( /\ hookContext = None
             /\ lastOp' \in {"done", "sigint", "pauseHooks", "resumeHooks",
                             "bar", "tick"} ) =>
              /\ hookContext' = None
              /\ console' = console ]_vars

\* Two bars each asked for the interception, with different offsets; the
\* second bar was finished, which removed the interception of the first.
C40_Witness ==
    /\ lastOp = "done"
    /\ lastCall.bar = 2
    /\ bars[1].state = "running" /\ bars[1].installed
    /\ bars[2].wants /\ ~bars[2].installed
    /\ hookContext = None
    /\ console = bars[1].before
====
